---------------------------- MODULE Spec2Model ----------------------------
(***************************************************************************)
(* Gator: the storage-backed recommendation / interest services            *)
(* (backend/services), the LJK recommendation engine                       *)
(* (recommendation_engine/engine.py) and the connection map services.      *)
(*                                                                         *)
(* Numbers.  The program computes with floats.  The model uses fixed point *)
(* hundredths: an interest weight 1.0 is 100, a delta 0.05 is 5, a score   *)
(* 0.7 is 70.  Sums and clamps are exact in this representation.           *)
(*                                                                         *)
(* Text.  A string is the sequence of its characters, so that substring    *)
(* tests (SQL ILIKE, Python `in`), lower-casing and whitespace splitting   *)
(* are computed and not assumed.                                           *)
(***************************************************************************)
EXTENDS Integers, Sequences, FiniteSets, TLC

VARIABLES
    content,          \* table content: id -> row (immutable in these services)
    interests,        \* table user_interests: row id -> [user_id, topic, weight]
    interactions,     \* table user_interactions, in insertion order
    recommendations,  \* table recommendations, in insertion order
    pending,          \* the Session's new objects, added and not yet flushed
    fk_enforced,      \* whether the storage backend enforces foreign keys
    pre,              \* the three mutable tables as they were when the last call began
    last,             \* the last service call: its arguments and its outcome
    calls,            \* number of service calls made on the session so far
    interest_graph,   \* LJKRecommendationEngine.interest_graph
    hybrid,           \* the last get_hybrid_recommendations call and its outcome
    graph,            \* CrossInterestConnectionMap.graph
    found,            \* the last find_novel_connections call and its outcome
    running           \* caller -> its find_novel_connections call under way, if any

store_vars == <<content, interests, interactions, recommendations, pending,
                fk_enforced, pre, last, calls>>

engine_vars == <<interest_graph, hybrid>>

map_vars == <<graph, found, running>>

vars == <<store_vars, engine_vars, map_vars>>

-----------------------------------------------------------------------------
(* Bounds of the model *)

MaxCalls == 2

-----------------------------------------------------------------------------
(* Text *)

T_ai    == <<"a", "i">>
T_AI    == <<"A", "I">>
T_ml    == <<"m", "l">>
T_art   == <<"a", "r", "t">>
T_ai_ml == <<"a", "i", " ", "m", "l">>
T_tech == <<"t", "e", "c", "h">>
T_software == <<"s", "o", "f", "t", "w", "a", "r", "e">>
T_machine_learning == <<"m", "a", "c", "h", "i", "n", "e", " ", "l", "e", "a", "r", "n", "i", "n", "g">>
T_politics == <<"p", "o", "l", "i", "t", "i", "c", "s">>
T_government == <<"g", "o", "v", "e", "r", "n", "m", "e", "n", "t">>
T_policy == <<"p", "o", "l", "i", "c", "y">>
T_science == <<"s", "c", "i", "e", "n", "c", "e">>
T_research == <<"r", "e", "s", "e", "a", "r", "c", "h">>
T_study == <<"s", "t", "u", "d", "y">>
T_business == <<"b", "u", "s", "i", "n", "e", "s", "s">>
T_startup == <<"s", "t", "a", "r", "t", "u", "p">>
T_finance == <<"f", "i", "n", "a", "n", "c", "e">>
T_health == <<"h", "e", "a", "l", "t", "h">>
T_medical == <<"m", "e", "d", "i", "c", "a", "l">>
T_medicine == <<"m", "e", "d", "i", "c", "i", "n", "e">>
T_health_policy == <<"h", "e", "a", "l", "t", "h", " ", "p", "o", "l", "i", "c", "y">>
T_technology == <<"t", "e", "c", "h", "n", "o", "l", "o", "g", "y">>
T_climate_change == <<"c", "l", "i", "m", "a", "t", "e", " ", "c", "h", "a", "n", "g", "e">>
T_education == <<"e", "d", "u", "c", "a", "t", "i", "o", "n">>
T_artificial_intelligence == <<"a", "r", "t", "i", "f", "i", "c", "i", "a", "l", " ", "i", "n", "t", "e", "l", "l", "i", "g", "e", "n", "c", "e">>
T_ml_art == <<"m", "l", " ", "a", "r", "t">>
T_general == <<"g", "e", "n", "e", "r", "a", "l">>
T_bridge == <<"b", "r", "i", "d", "g", "e">>
T_cross_domain == <<"c", "r", "o", "s", "s", "_", "d", "o", "m", "a", "i", "n">>
T_content_ == <<"c", "o", "n", "t", "e", "n", "t", "_">>
T_content_1 == <<"c", "o", "n", "t", "e", "n", "t", "_", "1">>
T_paint == <<"p", "a", "i", "n", "t">>
T_the == <<"t", "h", "e">>
T_art_health == <<"a", "r", "t", " ", "h", "e", "a", "l", "t", "h">>
T_health_tech == <<"h", "e", "a", "l", "t", "h", " ", "t", "e", "c", "h">>
T_and == <<"a", "n", "d">>
T_deep_learning == <<"d", "e", "e", "p", " ", "l", "e", "a", "r", "n", "i", "n", "g">>
T_neural_networks == <<"n", "e", "u", "r", "a", "l", " ", "n", "e", "t", "w", "o", "r", "k", "s">>
T_AI_ethics == <<"A", "I", " ", "e", "t", "h", "i", "c", "s">>
T_renewable_energy ==
    <<"r", "e", "n", "e", "w", "a", "b", "l",
      "e", " ", "e", "n", "e", "r", "g", "y">>
T_sustainable_technology ==
    <<"s", "u", "s", "t", "a", "i", "n", "a", "b", "l", "e",
      " ", "t", "e", "c", "h", "n", "o", "l", "o", "g", "y">>
T_green_policy == <<"g", "r", "e", "e", "n", " ", "p", "o", "l", "i", "c", "y">>
T_computer_vision == <<"c", "o", "m", "p", "u", "t", "e", "r", " ", "v", "i", "s", "i", "o", "n">>
T_AI_safety == <<"A", "I", " ", "s", "a", "f", "e", "t", "y">>
T_innovation == <<"i", "n", "n", "o", "v", "a", "t", "i", "o", "n">>
T_startups == <<"s", "t", "a", "r", "t", "u", "p", "s">>
T_future_trends == <<"f", "u", "t", "u", "r", "e", " ", "t", "r", "e", "n", "d", "s">>
T_discovery == <<"d", "i", "s", "c", "o", "v", "e", "r", "y">>
T_breakthroughs == <<"b", "r", "e", "a", "k", "t", "h", "r", "o", "u", "g", "h", "s">>
T_philosophy == <<"p", "h", "i", "l", "o", "s", "o", "p", "h", "y">>
T_psychology == <<"p", "s", "y", "c", "h", "o", "l", "o", "g", "y">>
T_Advanced_ == <<"A", "d", "v", "a", "n", "c", "e", "d", " ">>

\* str.lower() / the case folding of ILIKE, one character
LowerChar(c) ==
    CASE c = "A" -> "a"
      [] c = "B" -> "b"
      [] c = "C" -> "c"
      [] c = "D" -> "d"
      [] c = "E" -> "e"
      [] c = "F" -> "f"
      [] c = "G" -> "g"
      [] c = "H" -> "h"
      [] c = "I" -> "i"
      [] c = "J" -> "j"
      [] c = "K" -> "k"
      [] c = "L" -> "l"
      [] c = "M" -> "m"
      [] c = "N" -> "n"
      [] c = "O" -> "o"
      [] c = "P" -> "p"
      [] c = "Q" -> "q"
      [] c = "R" -> "r"
      [] c = "S" -> "s"
      [] c = "T" -> "t"
      [] c = "U" -> "u"
      [] c = "V" -> "v"
      [] c = "W" -> "w"
      [] c = "X" -> "x"
      [] c = "Y" -> "y"
      [] c = "Z" -> "z"
      [] OTHER -> c

Lower(s) == [k \in 1..Len(s) |-> LowerChar(s[k])] @@ <<>>

\* Python `sub in s`, SQL `s LIKE '%sub%'`
Contains(s, sub) ==
    \E k \in 1..(Len(s) - Len(sub) + 1) : SubSeq(s, k, k + Len(sub) - 1) = sub

\* UserInterest.topic.ilike(f"%{tag.name}%")
ILikeMatch(topic, tagname) == Contains(Lower(topic), Lower(tagname))

Max(a, b) == IF a >= b THEN a ELSE b
Min(a, b) == IF a <= b THEN a ELSE b

\* str.split(): the maximal runs of non-blank characters
RECURSIVE SplitFrom(_, _, _)
SplitFrom(s, k, word) ==
    IF k > Len(s) THEN (IF word = <<>> THEN <<>> ELSE <<word>>)
    ELSE IF s[k] = " "
         THEN (IF word = <<>> THEN <<>> ELSE <<word>>) \o SplitFrom(s, k + 1, <<>>)
         ELSE SplitFrom(s, k + 1, Append(word, s[k]))

Split(s) == SplitFrom(s, 1, <<>>)

\* " ".join(parts)
RECURSIVE Join(_)
Join(parts) ==
    IF parts = <<>> THEN <<>>
    ELSE IF Len(parts) = 1 THEN parts[1]
         ELSE parts[1] \o <<" ">> \o Join(Tail(parts))

\* a function as the table of its values, each computed once
Table(f) == f @@ <<>>

\* sum of F[x] over x in S
RECURSIVE SumOver(_, _)
SumOver(F, S) ==
    IF S = {} THEN 0
    ELSE LET x == CHOOSE y \in S : TRUE
         IN F[x] + SumOver(F, S \ {x})

\* the least r in lo..hi with r * r >= x
RECURSIVE SqrtSearch(_, _, _)
SqrtSearch(x, lo, hi) ==
    IF lo >= hi THEN lo
    ELSE LET mid == (lo + hi) \div 2
         IN IF mid * mid >= x THEN SqrtSearch(x, lo, mid)
            ELSE SqrtSearch(x, mid + 1, hi)

\* the square root of x, rounded up
SqrtUp(x) == SqrtSearch(x, 0, 46340)

\* the permutations of a finite set, as sequences
Perms(S) ==
    {p \in [1..Cardinality(S) -> S] :
        \A i, j \in 1..Cardinality(S) : i # j => p[i] # p[j]}

\* seq[:n] for n >= 0
Take(seq, n) == SubSeq(seq, 1, Min(n, Len(seq)))

\* d.get(key, 0) of a score map
Get(m, key) == IF key \in DOMAIN m THEN m[key] ELSE 0

\* the rank of an element when sorting without reverse=True
RankAsc(key, k) ==
    Cardinality({j \in 1..Len(key) :
                    key[j] < key[k] \/ (key[j] = key[k] /\ j < k)}) + 1

\* the places left of k that sort before k: sorted(..., reverse=True) is
\* stable, so an equal key keeps its input place
RankDesc(key, k) ==
    Cardinality({j \in 1..Len(key) :
                    key[j] > key[k] \/ (key[j] = key[k] /\ j < k)}) + 1

\* sorted(items, key=..., reverse=True): the indices of items in sorted order
SortedDesc(key) ==
    Table([r \in 1..Len(key) |-> CHOOSE k \in 1..Len(key) : RankDesc(key, k) = r])

-----------------------------------------------------------------------------
(* TfidfVectorizer(stop_words='english', ngram_range=(1, n)) and              *)
(* cosine_similarity.  Scores are in units of 1/10000.  The idf is held in    *)
(* hundredths, a norm is rounded up and a quotient down, so a score is a      *)
(* lower approximation of the real-valued cosine.  max_features (1000, 2000)  *)
(* is above every vocabulary of the model and cuts nothing.                   *)

StopWords == {<<"i", "n">>, <<"o", "f">>, <<"t", "h", "e">>, <<"a", "n", "d">>}

\* token_pattern \b\w\w+\b on the lower-cased text, stop words removed
Tokens(text) ==
    LET IsToken(w) == Len(w) >= 2 /\ w \notin StopWords
    IN SelectSeq(Split(Lower(text)), IsToken)

\* the word n-grams of a token list, 1 <= n <= maxn
NGrams(tokens, maxn) ==
    UNION {{SubSeq(tokens, i, i + n - 1) : i \in 1..(Len(tokens) - n + 1)} :
              n \in 1..maxn}

\* term frequency of an n-gram in a token list
Count(f, tokens) ==
    Cardinality({i \in 1..(Len(tokens) - Len(f) + 1) :
                    SubSeq(tokens, i, i + Len(f) - 1) = f})

\* 100 * ln(k), k = 1..8
Ln100 == <<0, 69, 110, 139, 161, 179, 195, 208>>

\* smooth idf: ln((1 + n) / (1 + df)) + 1, in hundredths
Idf(n, df) == Ln100[1 + n] - Ln100[1 + df] + 100

\* cosine of two weighted vectors over vocab, in 1/10000; 0 for a zero vector
Cosine(q, d, vocab) ==
    LET dot == SumOver([f \in vocab |-> q[f] * d[f]], vocab)
        nq  == SumOver([f \in vocab |-> q[f] * q[f]], vocab)
        nd  == SumOver([f \in vocab |-> d[f] * d[f]], vocab)
    IN IF nq = 0 \/ nd = 0 THEN 0
       ELSE (((dot * 100) \div SqrtUp(nq)) * 100) \div SqrtUp(nd)

\* fit_transform(texts), transform([query]), cosine_similarity: the similarity
\* of the query to each text; fit_transform raises on an empty vocabulary
TfidfSimilarity(texts, query, maxn) ==
    LET toks  == Table([k \in 1..Len(texts) |-> Tokens(texts[k])])
        vocab == UNION {NGrams(toks[k], maxn) : k \in 1..Len(texts)}
        df    == Table([f \in vocab |->
                    Cardinality({k \in 1..Len(texts) : Count(f, toks[k]) > 0})])
        idf   == Table([f \in vocab |-> Idf(Len(texts), df[f])])
        qt    == Tokens(query)
        q     == Table([f \in vocab |-> Count(f, qt) * idf[f]])
        doc(k) == Table([f \in vocab |-> Count(f, toks[k]) * idf[f]])
    IN IF vocab = {} THEN [raised |-> TRUE, sims |-> <<>>]
       ELSE [raised |-> FALSE,
             sims |-> Table([k \in 1..Len(texts) |-> Cosine(q, doc(k), vocab)])]

\* {item.id: value[i] for i, item in enumerate(items)}
ScoreMap(ids, values) ==
    Table([c \in {ids[k] : k \in 1..Len(ids)} |->
        values[CHOOSE k \in 1..Len(ids) :
                  ids[k] = c /\ \A j \in 1..Len(ids) : ids[j] = c => j <= k]])


-----------------------------------------------------------------------------
(* Storage rows *)

Users == {1, 2}

InteractionTypes == {"like", "dislike", "view", "share", "bookmark", "rate"}

Interest(u, t, w) == [user_id |-> u, topic |-> t, weight |-> w]

Interaction(u, c, t) == [user_id |-> u, content_id |-> c, interaction_type |-> t]

Recommendation(u, c, s) ==
    [user_id |-> u, content_id |-> c, score |-> s, algorithm |-> "hybrid",
     clicked |-> FALSE]

ContentRow(title, summary, tags, created, published) ==
    [title |-> title, summary |-> summary, tags |-> tags,
     created_at |-> created, published_at |-> published]

Snapshot == [interests |-> interests, interactions |-> interactions,
             recommendations |-> recommendations]

NoCall == [op |-> "none", user_id |-> 0, content_id |-> 0,
           interaction_type |-> "", topic |-> <<>>, weight |-> 0,
           limit |-> 0, error |-> "", path |-> "", result |-> <<>>,
           final_scores |-> <<>>]

-----------------------------------------------------------------------------
(* The engine and the connection map, as constructed *)

\* nx.Graph(): node -> its name or title, edge {a, b} -> its weight
EmptyGraph == [nodes |-> <<>>, edges |-> <<>>]

NoHybrid == [op |-> "none", user_id |-> 0, user_interests |-> <<>>,
             content_data |-> <<>>, user_interactions |-> <<>>, limit |-> 0,
             tfidf_scores |-> <<>>, collaborative_scores |-> <<>>,
             graph_scores |-> <<>>, cross_domain_scores |-> <<>>,
             final_scores |-> <<>>, result |-> <<>>]

NoFound == [op |-> "none", service |-> "", user_interests |-> <<>>,
            content_data |-> <<>>, max_connections |-> 0, result |-> <<>>]

\* LJKRecommendationEngine.__init__
FreshEngine == interest_graph = EmptyGraph /\ hybrid = NoHybrid

\* the callers that share the one CrossInterestConnectionMap
Callers == {1, 2}

\* no call of find_novel_connections is under way
Idle == [op |-> "none"]

\* CrossInterestConnectionMap.__init__
FreshMap ==
    /\ graph = EmptyGraph
    /\ found = NoFound
    /\ running = [caller \in Callers |-> Idle]

-----------------------------------------------------------------------------
(* The Session *)

\* Session.commit(): the flush inserts the pending rows; a backend that
\* enforces foreign keys rejects an interaction whose content row is absent.
FlushAccepted(new) ==
    \/ ~fk_enforced
    \/ \A k \in 1..Len(new) : new[k].content_id \in DOMAIN content

\* get_db(): `finally: db.close()` ends the session, dropping what it holds
CloseSession ==
    /\ Len(pending) > 0
    /\ pending' = <<>>
    /\ last' = [NoCall EXCEPT !.op = "close"]
    /\ pre' = Snapshot
    /\ UNCHANGED <<content, interests, interactions, recommendations,
                   fk_enforced, calls>>
    /\ UNCHANGED <<engine_vars, map_vars>>

-----------------------------------------------------------------------------
(* InterestService (backend/services/interest_service.py) *)

\* the clamp with its lower bound forgotten
ClampWeightNoFloor(w) == Min(200, w)

\* max(0.1, min(2.0, w)): the clamp of update_interest_weight and submit_feedback
ClampWeight(w) == Max(10, Min(200, w))

\* the bump without its cap
BumpUncapped(w) == w + 10

\* existing.weight = min(existing.weight + 0.1, 2.0)
BumpExisting(w) == Min(w + 10, 200)

\* db.query(UserInterest).filter(user_id == u, topic == t): the matching row ids
InterestsByTopic(u, t) ==
    {k \in 1..Len(interests) : interests[k].user_id = u /\ interests[k].topic = t}

\* the rows complete_onboarding adds for a list of topics, each with weight 1.0
OnboardingRows(u, topics) ==
    [k \in 1..Len(topics) |-> Interest(u, topics[k], 100)]

CompleteOnboarding(u, topics) ==
    /\ calls < MaxCalls
    /\ calls' = calls + 1
    /\ pre' = Snapshot
    /\ pending' = <<>>
    /\ IF FlushAccepted(pending)
       THEN /\ interests' = interests \o OnboardingRows(u, topics)
            /\ interactions' = interactions \o pending
            /\ last' = [NoCall EXCEPT !.op = "complete_onboarding", !.user_id = u]
       ELSE /\ UNCHANGED <<interests, interactions>>
            /\ last' = [NoCall EXCEPT !.op = "complete_onboarding", !.user_id = u,
                                      !.error = "IntegrityError"]
    /\ UNCHANGED <<content, recommendations, fk_enforced>>
    /\ UNCHANGED <<engine_vars, map_vars>>

\* .first() of a query with no ORDER BY is some matching row: the backend decides which
AddInterest(u, t, w) ==
    /\ calls < MaxCalls
    /\ calls' = calls + 1
    /\ pre' = Snapshot
    /\ pending' = <<>>
    /\ LET call == [NoCall EXCEPT !.op = "add_interest", !.user_id = u,
                                  !.topic = t, !.weight = w]
       IN IF ~FlushAccepted(pending)
          THEN /\ UNCHANGED <<interests, interactions>>
               /\ last' = [call EXCEPT !.error = "IntegrityError"]
          ELSE /\ interactions' = interactions \o pending
               /\ last' = call
               /\ IF InterestsByTopic(u, t) # {}
                  THEN \E k \in InterestsByTopic(u, t) :
                          interests' = [interests EXCEPT
                                          ![k].weight = BumpExisting(@)]
                  ELSE interests' = Append(interests, Interest(u, t, w))
    /\ UNCHANGED <<content, recommendations, fk_enforced>>
    /\ UNCHANGED <<engine_vars, map_vars>>

\* commits only when the interest exists
UpdateInterestWeight(u, t, weight_change) ==
    /\ calls < MaxCalls
    /\ calls' = calls + 1
    /\ pre' = Snapshot
    /\ LET call == [NoCall EXCEPT !.op = "update_interest_weight", !.user_id = u,
                                  !.topic = t, !.weight = weight_change]
       IN IF InterestsByTopic(u, t) = {}
          THEN /\ last' = call
               /\ UNCHANGED <<interests, interactions, pending>>
          ELSE /\ pending' = <<>>
               /\ IF ~FlushAccepted(pending)
                  THEN /\ UNCHANGED <<interests, interactions>>
                       /\ last' = [call EXCEPT !.error = "IntegrityError"]
                  ELSE /\ interactions' = interactions \o pending
                       /\ last' = call
                       /\ \E k \in InterestsByTopic(u, t) :
                             interests' = [interests EXCEPT
                                ![k].weight = ClampWeight(@ + weight_change)]
    /\ UNCHANGED <<content, recommendations, fk_enforced>>
    /\ UNCHANGED <<engine_vars, map_vars>>

-----------------------------------------------------------------------------
(* RecommendationService.submit_feedback *)

\* weight_change by interaction type
WeightChange(t) ==
    CASE t = "like"    -> 10
      [] t = "dislike" -> -10
      [] t = "view"    -> 5
      [] OTHER         -> 0

\* the user's interests the query of one tag can return
TagMatches(u, tagname) ==
    {k \in 1..Len(interests) :
        interests[k].user_id = u /\ ILikeMatch(interests[k].topic, tagname)}

\* one .first() per tag of the content: 0 where the query returns no row
FirstPicks(u, tags) ==
    {p \in [1..Len(tags) -> 0..Len(interests)] :
        \A k \in 1..Len(tags) :
            IF TagMatches(u, tags[k]) = {} THEN p[k] = 0
            ELSE p[k] \in TagMatches(u, tags[k])}

\* the loop over content.tags: each picked interest is clamped to w + change,
\* a later tag seeing the weight an earlier tag left
RECURSIVE UpdateWeights(_, _, _, _)
UpdateWeights(ints, picks, change, k) ==
    IF k > Len(picks) THEN ints
    ELSE UpdateWeights(
            IF picks[k] = 0 THEN ints
            ELSE [ints EXCEPT ![picks[k]].weight = ClampWeight(@ + change)],
            picks, change, k + 1)

\* db.query(Recommendation).filter(user_id == u, content_id == c): matching rows
RecsFor(recs, u, c) ==
    {k \in 1..Len(recs) : recs[k].user_id = u /\ recs[k].content_id = c}

\* clicked set by every feedback but a dislike
ClickedUnlessDisliked(t) == t # "dislike"

\* recommendation.clicked = interaction_type in ['like', 'view']
Clicked(t) == t \in {"like", "view"}

SubmitFeedback(u, c, t) ==
    /\ calls < MaxCalls
    /\ calls' = calls + 1
    /\ pre' = Snapshot
    /\ LET call == [NoCall EXCEPT !.op = "submit_feedback", !.user_id = u,
                                  !.content_id = c, !.interaction_type = t]
           added == Append(pending, Interaction(u, c, t))
       IN IF c \notin DOMAIN content
          THEN \* raise ValueError: the added interaction stays in the session
               /\ pending' = added
               /\ last' = [call EXCEPT !.error = "Content not found"]
               /\ UNCHANGED <<interests, interactions, recommendations>>
          ELSE /\ pending' = <<>>
               /\ IF ~FlushAccepted(added)
                  THEN /\ last' = [call EXCEPT !.error = "IntegrityError"]
                       /\ UNCHANGED <<interests, interactions, recommendations>>
                  ELSE /\ last' = call
                       /\ interactions' = interactions \o added
                       /\ \E picks \in FirstPicks(u, content[c].tags) :
                             interests' = UpdateWeights(interests, picks,
                                                        WeightChange(t), 1)
                       /\ IF RecsFor(recommendations, u, c) = {}
                          THEN UNCHANGED recommendations
                          ELSE \E k \in RecsFor(recommendations, u, c) :
                                  recommendations' =
                                     [recommendations EXCEPT ![k].clicked = Clicked(t)]
    /\ UNCHANGED <<content, fk_enforced>>
    /\ UNCHANGED <<engine_vars, map_vars>>

-----------------------------------------------------------------------------
(* RecommendationService.get_recommendations.  Scorer outputs are in units    *)
(* of 1/10000; a fused score, and the score column of a recommendation row,   *)
(* is in units of 1/100000, so that the weighted sums are exact.              *)

\* the row ids of a user's interests
InterestsOf(u) == {k \in 1..Len(interests) : interests[k].user_id = u}

\* title, summary when there is one, and the tag names, joined by blanks
ContentText(c) ==
    Join(<<c.title>> \o (IF c.summary # <<>> THEN <<c.summary>> ELSE <<>>) \o c.tags)

\* _calculate_tfidf_scores: {} when the vectorizer raises
TfidfScores(ids, interest_topics) ==
    LET r == TfidfSimilarity([k \in 1..Len(ids) |-> ContentText(content[ids[k]])],
                             Join(interest_topics), 2)
    IN IF ids = <<>> \/ r.raised THEN <<>> ELSE ScoreMap(ids, r.sims)

\* the other users holding a topic of the user, spelled the same
SimilarUserIds(u) ==
    {interests[k].user_id : k \in
        {j \in 1..Len(interests) :
            /\ interests[j].user_id # u
            /\ \E i \in InterestsOf(u) : interests[i].topic = interests[j].topic}}

\* the likes of the similar users on content c
LikeCount(u, c) ==
    Cardinality({k \in 1..Len(interactions) :
                    /\ interactions[k].user_id \in SimilarUserIds(u)
                    /\ interactions[k].interaction_type = "like"
                    /\ interactions[k].content_id = c})

\* _calculate_collaborative_scores: each liked content's share of the likes
CollaborativeScores(u, ids) ==
    LET liked == {interactions[k].content_id : k \in
                    {j \in 1..Len(interactions) :
                        /\ interactions[j].user_id \in SimilarUserIds(u)
                        /\ interactions[j].interaction_type = "like"}}
        total == SumOver([c \in liked |-> LikeCount(u, c)], liked)
    IN IF ids = <<>> \/ SimilarUserIds(u) = {} THEN <<>>
       ELSE Table([c \in liked |-> (LikeCount(u, c) * 10000) \div total])

\* final_score = 0.6 * tfidf_score + 0.4 * collaborative_score
ServiceScore(tfidf, collaborative, c) == 6 * Get(tfidf, c) + 4 * Get(collaborative, c)

\* the final score of every content row, for the tagged rows ids and the
\* user's interest rows held, both in the order the queries returned them
ServiceScores(u, ids, held) ==
    LET topics == [k \in 1..Len(held) |-> interests[held[k]].topic]
        tfidf  == TfidfScores(ids, topics)
        collab == CollaborativeScores(u, ids)
    IN Table([c \in DOMAIN content |-> ServiceScore(tfidf, collab, c)])

\* sorted(content_with_tags, key=final_score, reverse=True), as ids
RankedIds(ids, final) ==
    LET order == SortedDesc(Table([k \in 1..Len(ids) |-> final[ids[k]]]))
    IN [k \in 1..Len(ids) |-> ids[order[k]]]

\* order_by(desc(Content.created_at)): every order of the rows that is
\* non-increasing in created_at (rows created together come in any order)
RecentOrders ==
    {p \in Perms(DOMAIN content) :
        \A i, j \in 1..Len(p) :
            i < j => content[p[i]].created_at >= content[p[j]].created_at}

\* db.query(Content).join(Content.tags).all(): the rows with a tag, in an
\* order the backend decides
TaggedOrders == Perms({c \in DOMAIN content : Len(content[c].tags) > 0})

\* a row stored for the first item only
ServedFirstRow(u, ids, score) ==
    [k \in 1..Min(1, Len(ids)) |-> Recommendation(u, ids[k], score[ids[k]])]

\* the rows stored for the items returned
ServedRows(u, ids, score) ==
    [k \in 1..Len(ids) |-> Recommendation(u, ids[k], score[ids[k]])]

GetRecommendations(u, limit) ==
    /\ calls < MaxCalls
    /\ calls' = calls + 1
    /\ pre' = Snapshot
    /\ LET call == [NoCall EXCEPT !.op = "get_recommendations", !.user_id = u,
                                  !.limit = limit]
       IN IF InterestsOf(u) = {}
          THEN \* _get_recent_content: no scorer runs, nothing is committed
               /\ \E p \in RecentOrders :
                     last' = [call EXCEPT !.path = "recent",
                                          !.result = Take(p, limit)]
               /\ UNCHANGED <<interactions, recommendations, pending>>
          ELSE \E ids \in TaggedOrders, held \in Perms(InterestsOf(u)) :
                 IF ids = <<>>
                 THEN /\ last' = [call EXCEPT !.path = "empty"]
                      /\ UNCHANGED <<interactions, recommendations, pending>>
                 ELSE \E final \in {ServiceScores(u, ids, held)} :
                      \E top \in {Take(RankedIds(ids, final), limit)} :
                         /\ pending' = <<>>
                         /\ IF FlushAccepted(pending)
                            THEN /\ recommendations' =
                                       recommendations \o ServedRows(u, top, final)
                                 /\ interactions' = interactions \o pending
                                 /\ last' = [call EXCEPT
                                       !.path = "scored", !.result = top,
                                       !.final_scores =
                                           Table([c \in {ids[k] : k \in 1..Len(ids)}
                                                     |-> final[c]])]
                            ELSE /\ UNCHANGED <<interactions, recommendations>>
                                 /\ last' = [call EXCEPT !.path = "scored",
                                                !.error = "IntegrityError"]
    /\ UNCHANGED <<content, interests, fk_enforced>>
    /\ UNCHANGED <<engine_vars, map_vars>>

-----------------------------------------------------------------------------
(* LJKRecommendationEngine: the interest graph *)

\* the dicts the engine is called with
InterestDict(id, topic, weight) == [id |-> id, topic |-> topic, weight |-> weight]

TagDict(id, name) == [id |-> id, name |-> name]

ContentDict(id, title, summary, tags) ==
    [id |-> id, title |-> title, summary |-> summary, tags |-> tags]

\* f"interest_{id}", f"content_{id}", f"tag_{id}"
InterestNode(id) == <<"interest", id>>
ContentNode(id)  == <<"content", id>>
TagNode(id)      == <<"tag", id>>

\* any(word in b for word in a.split()) or any(word in a for word in b.split())
WordOverlap(a, b) ==
    \/ \E i \in 1..Len(Split(a)) : Contains(b, Split(a)[i])
    \/ \E i \in 1..Len(Split(b)) : Contains(a, Split(b)[i])

\* the (content index, tag index) places of a content list, in loop order
TagPlaces(content_tags) ==
    UNION {{<<c, t>> : t \in 1..Len(content_tags[c].tags)} :
              c \in 1..Len(content_tags)}

\* the greatest element of a non-empty set of places, in loop order
LastPlace(S) ==
    CHOOSE pl \in S : \A o \in S : o[1] < pl[1] \/ (o[1] = pl[1] /\ o[2] <= pl[2])

\* build_interest_graph: add_node and add_edge overwrite what an earlier
\* iteration wrote under the same node name
BuildGraph(user_interests, content_tags) ==
    LET places == TagPlaces(content_tags)
        tagAt(pl) == content_tags[pl[1]].tags[pl[2]]
        inodes == {InterestNode(user_interests[i].id) : i \in 1..Len(user_interests)}
        cnodes == {ContentNode(content_tags[c].id) : c \in 1..Len(content_tags)}
        tnodes == {TagNode(tagAt(pl).id) : pl \in places}
        lastI(n) == CHOOSE i \in 1..Len(user_interests) :
                       /\ InterestNode(user_interests[i].id) = n
                       /\ \A j \in 1..Len(user_interests) :
                             InterestNode(user_interests[j].id) = n => j <= i
        lastC(n) == CHOOSE c \in 1..Len(content_tags) :
                       /\ ContentNode(content_tags[c].id) = n
                       /\ \A j \in 1..Len(content_tags) :
                             ContentNode(content_tags[j].id) = n => j <= c
        lastT(n) == LastPlace({pl \in places : TagNode(tagAt(pl).id) = n})
        name(n) == IF n \in inodes THEN user_interests[lastI(n)].topic
                   ELSE IF n \in cnodes THEN content_tags[lastC(n)].title
                   ELSE tagAt(lastT(n)).name
        cedges == {{ContentNode(content_tags[pl[1]].id), TagNode(tagAt(pl).id)} :
                      pl \in places}
        \* the interests, by index, that reach the tag node of a place
        hits == {<<i, pl>> \in (1..Len(user_interests)) \X places :
                    WordOverlap(Lower(user_interests[i].topic), Lower(tagAt(pl).name))}
        iedges == {{InterestNode(user_interests[h[1]].id), TagNode(tagAt(h[2]).id)} :
                      h \in hits}
        lastHit(e) == CHOOSE i \in 1..Len(user_interests) :
                         /\ \E h \in hits : h[1] = i /\ e = {InterestNode(user_interests[i].id),
                                                              TagNode(tagAt(h[2]).id)}
                         /\ \A h \in hits :
                               e = {InterestNode(user_interests[h[1]].id),
                                    TagNode(tagAt(h[2]).id)} => h[1] <= i
    IN [nodes |-> Table([n \in inodes \cup cnodes \cup tnodes |-> name(n)]),
        edges |-> Table([e \in cedges \cup iedges |->
                            IF e \in cedges THEN 100
                            ELSE user_interests[lastHit(e)].weight])]

BuildInterestGraph(user_interests, content_tags) ==
    /\ interest_graph' = BuildGraph(user_interests, content_tags)
    /\ UNCHANGED <<hybrid, store_vars, map_vars>>

-----------------------------------------------------------------------------
(* LJKRecommendationEngine: the four scorers.  Every score is in 1/10000.     *)

\* the ids of a content list, in list order
IdsOf(content_data) == [k \in 1..Len(content_data) |-> content_data[k].id]

\* title, summary when there is one, and the tag names, joined by blanks
DictText(c) ==
    Join(<<c.title>> \o (IF c.summary # <<>> THEN <<c.summary>> ELSE <<>>)
         \o [t \in 1..Len(c.tags) |-> c.tags[t].name])

\* calculate_tfidf_similarity: {} for no content and when the vectorizer raises
CalculateTfidfSimilarity(interest_topics, content_data) ==
    LET r == TfidfSimilarity(Table([k \in 1..Len(content_data) |->
                                       DictText(content_data[k])]),
                             Join(interest_topics), 3)
    IN IF content_data = <<>> \/ r.raised THEN <<>>
       ELSE ScoreMap(IdsOf(content_data), r.sims)

\* the users of a log, in the order of their first interaction
RECURSIVE UsersInOrder(_)
UsersInOrder(log) ==
    IF log = <<>> THEN <<>>
    ELSE LET front == UsersInOrder(SubSeq(log, 1, Len(log) - 1))
             u == log[Len(log)].user_id
         IN IF \E k \in 1..Len(front) : front[k] = u THEN front ELSE Append(front, u)

\* user_item_matrix[user].keys()
ItemsOf(log, u) == {log[k].content_id : k \in {j \in 1..Len(log) : log[j].user_id = u}}

\* user_item_matrix[user][item]: the rating of the last interaction
Rating(log, u, item) ==
    LET k == CHOOSE j \in 1..Len(log) :
                 /\ log[j].user_id = u /\ log[j].content_id = item
                 /\ \A i \in 1..Len(log) :
                       (log[i].user_id = u /\ log[i].content_id = item) => i <= j
    IN IF log[k].interaction_type = "like" THEN 10000 ELSE 5000

\* Jaccard similarity of two users' item sets
Jaccard(A, B) == (Cardinality(A \cap B) * 10000) \div Cardinality(A \cup B)

\* _find_similar_users: the others above 0.1, most similar first, ten at most
FindSimilarUsers(user_id, log) ==
    LET users  == UsersInOrder(log)
        mine   == ItemsOf(log, user_id)
        IsNear(u) == /\ u # user_id
                     /\ 10 * Cardinality(mine \cap ItemsOf(log, u))
                           > Cardinality(mine \cup ItemsOf(log, u))
        near   == SelectSeq(users, IsNear)
        order  == SortedDesc(Table([k \in 1..Len(near) |->
                                       Jaccard(mine, ItemsOf(log, near[k]))]))
    IN IF \A k \in 1..Len(users) : users[k] # user_id THEN <<>>
       ELSE Take([k \in 1..Len(near) |-> near[order[k]]], 10)

\* calculate_collaborative_scores
CalculateCollaborativeScores(user_id, log, content_data) ==
    LET similar == FindSimilarUsers(user_id, log)
        mine    == ItemsOf(log, user_id)
        raters(c) == {k \in 1..Len(similar) : c \in ItemsOf(log, similar[k])}
        sim(k)  == Jaccard(mine, ItemsOf(log, similar[k]))
        score(c) ==
            LET total == SumOver([k \in raters(c) |-> sim(k)], raters(c))
            IN IF total > 0
               THEN SumOver([k \in raters(c) |->
                               sim(k) * Rating(log, similar[k], c)],
                            raters(c)) \div total
               ELSE 0
    IN IF log = <<>> THEN <<>>
       ELSE Table([c \in {content_data[k].id : k \in 1..Len(content_data)} |->
                      score(c)])

\* nx.pagerank works on ranks that sum to 1; the model holds a rank in
\* millionths, so that tol = 1e-06 is one unit
RankUnit == 1000000

\* nx.pagerank(max_iter=100)
MaxIter == 100

\* the summed weight of the edges at node n
Strength(g, n) ==
    SumOver([e \in DOMAIN g.edges |-> IF n \in e THEN g.edges[e] ELSE 0],
            DOMAIN g.edges)

\* the graph as pagerank walks it: for each node its neighbours with the edge
\* weights, and its summed weight
Walk(g) ==
    Table([m \in DOMAIN g.nodes |->
        [out |-> Strength(g, m),
         nbrs |-> {<<CHOOSE n \in e : n # m, g.edges[e]>> :
                      e \in {d \in DOMAIN g.edges : m \in d}}]])

\* one power iteration with alpha = 0.85 and all personalization on seed,
\* which also receives the rank of the dangling nodes
PageRankStep(w, seed, x) ==
    LET danglesum == (85 * SumOver(x, {n \in DOMAIN w : w[n].out = 0})) \div 100
        inflow(m) ==
            SumOver([nb \in w[m].nbrs |->
                        (((x[nb[1]] * nb[2]) \div w[nb[1]].out) * 85) \div 100],
                    w[m].nbrs)
    IN Table([m \in DOMAIN w |->
                 inflow(m) + (IF m = seed
                              THEN danglesum + (15 * RankUnit) \div 100 ELSE 0)])

\* |a - b|
AbsDiff(a, b) == IF a >= b THEN a - b ELSE b - a

\* iterate until the ranks move by less than N * tol, MaxIter times at most
RECURSIVE PowerIteration(_, _, _, _)
PowerIteration(w, seed, x, k) ==
    IF k = MaxIter THEN [failed |-> TRUE, x |-> x, iterations |-> k]
    ELSE LET y == PageRankStep(w, seed, x)
             err == SumOver([n \in DOMAIN x |-> AbsDiff(y[n], x[n])], DOMAIN x)
         IN IF err < Cardinality(DOMAIN x)
            THEN [failed |-> FALSE, x |-> y, iterations |-> k + 1]
            ELSE PowerIteration(w, seed, y, k + 1)

\* nx.pagerank(G, personalization={seed: 1.0}), seed a node of G
PageRank(g, seed) ==
    PowerIteration(Walk(g), seed,
                   Table([n \in DOMAIN g.nodes |->
                             RankUnit \div Cardinality(DOMAIN g.nodes)]), 0)

\* personalization={f"interest_{user_id}": 1.0}: the seed nodes and their mass
Personalization(user_id) == InterestNode(user_id) :> RankUnit

\* calculate_graph_based_scores without the else branch of its loop: a score
\* only for the content that is a node of the graph
GraphScoreOutcomesOfNodes(g, user_id, content_data) ==
    LET ids == {content_data[k].id : k \in 1..Len(content_data)}
    IN IF DOMAIN g.nodes = {} THEN {<<>>}
       ELSE IF InterestNode(user_id) \notin DOMAIN g.nodes
            THEN {<<>>, Table([c \in ids |-> 0])}
            ELSE LET r == PageRank(g, InterestNode(user_id))
                 IN IF r.failed THEN {<<>>}
                    ELSE {Table([c \in {i \in ids : ContentNode(i) \in DOMAIN g.nodes} |->
                                    r.x[ContentNode(c)] \div 100])}

\* calculate_graph_based_scores reads self.interest_graph.  When the graph has
\* no node interest_{user_id}, pagerank raises (the exception is caught and {}
\* returned) or, in networkx releases that accept such a personalization,
\* returns ranks below tol: the outcomes are {} and a map of zeros.
GraphScoreOutcomes(g, user_id, content_data) ==
    LET ids == {content_data[k].id : k \in 1..Len(content_data)}
    IN IF DOMAIN g.nodes = {} THEN {<<>>}
       ELSE IF InterestNode(user_id) \notin DOMAIN g.nodes
            THEN {<<>>, Table([c \in ids |-> 0])}
            ELSE LET r == PageRank(g, InterestNode(user_id))
                 IN IF r.failed THEN {<<>>}
                    ELSE {Table([c \in ids |->
                                    IF ContentNode(c) \in DOMAIN g.nodes
                                    THEN r.x[ContentNode(c)] \div 100 ELSE 0])}

\* _extract_domain: the first keyword list with a keyword inside the text
ExtractDomain(text) ==
    LET HasAny(words) == \E w \in words : Contains(Lower(text), w)
    IN IF HasAny({T_tech, T_software, T_ai, T_machine_learning}) THEN "technology"
       ELSE IF HasAny({T_politics, T_government, T_policy}) THEN "politics"
       ELSE IF HasAny({T_science, T_research, T_study}) THEN "science"
       ELSE IF HasAny({T_business, T_startup, T_finance}) THEN "business"
       ELSE IF HasAny({T_health, T_medical, T_medicine}) THEN "health"
       ELSE "general"

\* the new domains counted, not set against the content's domains
NoveltyCount(new_domains, content_domains) == new_domains * 10000

\* novelty_score = len(new_domains) / max(len(content_domains), 1)
NoveltyShare(new_domains, content_domains) ==
    (new_domains * 10000) \div Max(content_domains, 1)

\* calculate_cross_domain_scores: 0.7 * novelty + 0.3 * bridge
CalculateCrossDomainScores(interest_topics, content_data) ==
    LET interest_domains ==
            {ExtractDomain(interest_topics[i]) : i \in 1..Len(interest_topics)}
        domains(c) == {ExtractDomain(c.tags[t].name) : t \in 1..Len(c.tags)}
        novelty(c) == NoveltyShare(Cardinality(domains(c) \ interest_domains),
                                   Cardinality(domains(c)))
        bridge(c) == IF Cardinality(domains(c)) > 1 THEN 5000 ELSE 0
    IN ScoreMap(IdsOf(content_data),
                Table([k \in 1..Len(content_data) |->
                          (7 * novelty(content_data[k]) + 3 * bridge(content_data[k]))
                              \div 10]))

-----------------------------------------------------------------------------
(* LJKRecommendationEngine.get_hybrid_recommendations.  A fused score is in   *)
(* 1/100000: 0.4 * tfidf + 0.3 * collaborative + 0.2 * graph + 0.1 * cross.   *)

\* the fusion with the novelty weight doubled
FusedScoreNoveltyTwice(tfidf, collaborative, graph_scores, cross, c) ==
    4 * Get(tfidf, c) + 3 * Get(collaborative, c)
        + 2 * Get(graph_scores, c) + 2 * Get(cross, c)

FusedScore(tfidf, collaborative, graph_scores, cross, c) ==
    4 * Get(tfidf, c) + 3 * Get(collaborative, c)
        + 2 * Get(graph_scores, c) + Get(cross, c)

\* the lower-cased interest, once for each tag of the content it overlaps
RECURSIVE MatchingTopics(_, _, _)
MatchingTopics(c, user_interests, i) ==
    IF i > Len(user_interests) THEN <<>>
    ELSE LET topic == Lower(user_interests[i].topic)
             tags == {t \in 1..Len(c.tags) : WordOverlap(topic, Lower(c.tags[t].name))}
         IN [k \in 1..Cardinality(tags) |-> topic]
                \o MatchingTopics(c, user_interests, i + 1)

\* a reasoning that never uses the high-quality label
GenerateReasoningTwoLabels(matching, score) ==
    IF matching # <<>>
    THEN [says |-> "interested in", topics |-> Take(matching, 2)]
    ELSE [says |-> "exploration", topics |-> <<>>]

\* _generate_reasoning: the sentence chosen and the interests it names
GenerateReasoning(matching, score) ==
    IF matching # <<>>
    THEN [says |-> "interested in", topics |-> Take(matching, 2)]
    ELSE IF score > 70000
         THEN [says |-> "high-quality", topics |-> <<>>]
         ELSE [says |-> "exploration", topics |-> <<>>]

\* the calls with arguments from the given sets on an engine whose graph is
\* g, each with its outcome; what depends on a part of the arguments only is
\* computed where that part is drawn
HybridCalls(g, user_ids, interest_lists, content_lists, logs, limits) ==
    UNION {
      LET user_id      == ucd[1]
          content_data == ucd[2]
          ids      == IdsOf(content_data)
          idset    == {ids[k] : k \in 1..Len(ids)}
          outcomes == GraphScoreOutcomes(g, user_id, content_data)
      IN UNION {
        LET interest_topics ==
                [i \in 1..Len(user_interests) |-> user_interests[i].topic]
            tfidf == CalculateTfidfSimilarity(interest_topics, content_data)
            cross == CalculateCrossDomainScores(interest_topics, content_data)
            matching == Table([k \in 1..Len(ids) |->
                                  MatchingTopics(content_data[k], user_interests, 1)])
        IN UNION {
          LET user_interactions == lgs[1]
              graph_scores == lgs[2]
              collab == CalculateCollaborativeScores(user_id, user_interactions,
                                                     content_data)
              final == Table([c \in idset |->
                                 FusedScore(tfidf, collab, graph_scores, cross, c)])
              order == SortedDesc(Table([k \in 1..Len(ids) |-> final[ids[k]]]))
              recs  == Table([r \in 1..Len(ids) |->
                          [content |-> content_data[order[r]],
                           score |-> final[ids[order[r]]],
                           algorithm |-> "hybrid",
                           reasoning |-> GenerateReasoning(matching[order[r]],
                                                           final[ids[order[r]]])]])
          IN {[op |-> "get_hybrid_recommendations", user_id |-> user_id,
               user_interests |-> user_interests, content_data |-> content_data,
               user_interactions |-> user_interactions, limit |-> limit,
               tfidf_scores |-> tfidf, collaborative_scores |-> collab,
               graph_scores |-> graph_scores, cross_domain_scores |-> cross,
               final_scores |-> final, result |-> Take(recs, limit)] :
                 limit \in limits}
          : lgs \in logs \X outcomes}
        : user_interests \in interest_lists}
      : ucd \in user_ids \X content_lists}

\* one call, its arguments drawn from the given sets
GetHybridRecommendations(user_ids, interest_lists, content_lists, logs, limits) ==
    /\ hybrid' \in HybridCalls(interest_graph, user_ids, interest_lists,
                               content_lists, logs, limits)
    /\ UNCHANGED <<interest_graph, store_vars, map_vars>>

-----------------------------------------------------------------------------
(* CrossInterestConnectionMap.  A node is named by a text: an interest by its *)
(* name, a content item by "content_" and its id.  self.graph keeps the nodes *)
(* in insertion order; an edge is the set of its ends.  Similarities and      *)
(* novelty scores are in 1/10000.  embedding_model is None (it is loaded only *)
(* from _semantic_similarity, which runs only once it is loaded), so the      *)
(* similarity of two interests is the word overlap.                           *)

\* the dicts the map is called with
NamedInterest(name, category) == [name |-> name, weight |-> 100, category |-> category]

MapContent(id, title, tags, category) ==
    [id |-> id, title |-> title, tags |-> tags, category |-> category]

\* str(n) for n >= 0
RECURSIVE Str(_)
Str(n) ==
    LET digit == <<"0", "1", "2", "3", "4", "5", "6", "7", "8", "9">>
    IN IF n < 10 THEN <<digit[n + 1]>> ELSE Str(n \div 10) \o <<digit[(n % 10) + 1]>>

\* f"content_{id}"
ContentName(id) == T_content_ \o Str(id)

\* node.startswith('content_')
IsContentName(node) ==
    Len(node) >= Len(T_content_) /\ SubSeq(node, 1, Len(T_content_)) = T_content_

\* set(text.split())
Words(text) == LET words == Split(text) IN {words[k] : k \in 1..Len(words)}

\* _calculate_tag_similarity: the word overlap of an interest and a tag list,
\* as the pair <<|intersection|, |union|>>; <<0, 1>> stands for 0.0
TagOverlap(interest, tags) ==
    LET tag_words == UNION {Words(tags[k]) : k \in 1..Len(tags)}
        interest_words == Words(interest)
    IN IF interest_words = {} \/ tag_words = {} THEN <<0, 1>>
       ELSE <<Cardinality(interest_words \cap tag_words),
              Cardinality(interest_words \cup tag_words)>>

\* a ratio in 1/10000
Ratio(r) == (r[1] * 10000) \div r[2]

\* ratio > self.similarity_threshold (0.3)
AboveSimilarityThreshold(r) == 10 * r[1] > 3 * r[2]

\* the place of the node called name among the nodes, 0 when there is none
NodePlace(nodes, name) ==
    IF \E k \in 1..Len(nodes) : nodes[k].name = name
    THEN CHOOSE k \in 1..Len(nodes) : nodes[k].name = name
    ELSE 0

\* graph.add_node(name, **attrs): a new node goes last, a node that is
\* there keeps its place and takes the attributes given
AddNode(nodes, node, given) ==
    IF NodePlace(nodes, node.name) = 0 THEN Append(nodes, node)
    ELSE [nodes EXCEPT ![NodePlace(nodes, node.name)] =
             [f \in DOMAIN node |-> IF f \in given THEN node[f] ELSE @[f]]]

RECURSIVE AddInterestNodes(_, _, _)
AddInterestNodes(nodes, user_interests, i) ==
    IF i > Len(user_interests) THEN nodes
    ELSE AddInterestNodes(
             AddNode(nodes, [name |-> user_interests[i].name, type |-> "interest",
                             weight |-> user_interests[i].weight,
                             title |-> <<>>, tags |-> <<>>,
                             category |-> user_interests[i].category],
                     {"name", "type", "weight", "category"}),
             user_interests, i + 1)

RECURSIVE AddContentNodes(_, _, _)
AddContentNodes(nodes, content_data, c) ==
    IF c > Len(content_data) THEN nodes
    ELSE AddContentNodes(
             AddNode(nodes, [name |-> ContentName(content_data[c].id),
                             type |-> "content", title |-> content_data[c].title,
                             weight |-> 0, tags |-> content_data[c].tags,
                             category |-> content_data[c].category],
                     {"name", "type", "title", "tags", "category"}),
             content_data, c + 1)

\* build_connection_graph on a cleared graph
BuildConnectionGraph(user_interests, content_data) ==
    LET lowtags(c) == [t \in 1..Len(content_data[c].tags) |->
                          Lower(content_data[c].tags[t])]
        ic == {<<i, c>> \in (1..Len(user_interests)) \X (1..Len(content_data)) :
                  AboveSimilarityThreshold(
                      TagOverlap(Lower(user_interests[i].name), lowtags(c)))}
        ii == {<<i, j>> \in (1..Len(user_interests)) \X (1..Len(user_interests)) :
                  /\ i < j
                  /\ AboveSimilarityThreshold(
                         TagOverlap(user_interests[i].name,
                                    <<user_interests[j].name>>))}
        icEdge(p) == {user_interests[p[1]].name, ContentName(content_data[p[2]].id)}
        iiEdge(p) == {user_interests[p[1]].name, user_interests[p[2]].name}
        \* the cross-interest edges are written after the interest-content ones
        edge(e) ==
            IF \E p \in ii : iiEdge(p) = e
            THEN LET p == CHOOSE q \in ii :
                             /\ iiEdge(q) = e
                             /\ \A o \in ii : iiEdge(o) = e =>
                                   (o[1] < q[1] \/ (o[1] = q[1] /\ o[2] <= q[2]))
                 IN [weight |-> Ratio(TagOverlap(user_interests[p[1]].name,
                                                 <<user_interests[p[2]].name>>)),
                     type |-> "cross_interest"]
            ELSE LET p == CHOOSE q \in ic :
                             /\ icEdge(q) = e
                             /\ \A o \in ic : icEdge(o) = e =>
                                   (o[1] < q[1] \/ (o[1] = q[1] /\ o[2] <= q[2]))
                 IN [weight |-> Ratio(TagOverlap(Lower(user_interests[p[1]].name),
                                                 lowtags(p[2]))),
                     type |-> "interest_content"]
    IN [nodes |-> AddContentNodes(AddInterestNodes(<<>>, user_interests, 1),
                                  content_data, 1),
        edges |-> Table([e \in {icEdge(p) : p \in ic} \cup {iiEdge(p) : p \in ii}
                            |-> edge(e)])]

\* the nodes with an edge to n
Neighbours(g, n) ==
    {m \in {g.nodes[k].name : k \in 1..Len(g.nodes)} : {n, m} \in DOMAIN g.edges}

\* the paths of the set that end in b if there are any, else the same of the
\* paths one node longer; {} when b is out of reach
RECURSIVE Reach(_, _, _)
Reach(g, paths, b) ==
    IF paths = {} THEN {}
    ELSE IF \E p \in paths : p[Len(p)] = b
         THEN {p \in paths : p[Len(p)] = b}
         ELSE Reach(g, UNION {{Append(p, n) :
                                  n \in Neighbours(g, p[Len(p)])
                                          \ {p[k] : k \in 1..Len(p)}} :
                                 p \in paths},
                    b)

\* nx.shortest_path(G, a, b) returns one of the paths with the fewest edges
ShortestPaths(g, a, b) == Reach(g, {<<a>>}, b)

\* the nodes of path[1:-1] whose name starts with content_
BridgeNodes(path) ==
    SelectSeq(SubSeq(path, 2, Len(path) - 1), IsContentName)

\* the attributes of the node called name
NodeData(g, name) == g.nodes[NodePlace(g.nodes, name)]

\* _calculate_content_diversity, as <<categories, content nodes>>
ContentDiversity(g, path) ==
    IF BridgeNodes(path) = <<>> THEN <<0, 1>>
    ELSE <<Cardinality({NodeData(g, BridgeNodes(path)[k]).category :
                           k \in 1..Len(BridgeNodes(path))}),
           Len(BridgeNodes(path))>>

\* _calculate_novelty_score:
\* (len - 2) * 0.3 + diversity * 0.4 + (1 - direct_similarity) * 0.3 in [0, 1]
NoveltyScore(g, path) ==
    LET d == ContentDiversity(g, path)
        s == TagOverlap(path[1], <<path[Len(path)]>>)
        tenfold == 3 * (Len(path) - 2) * d[2] * s[2] + 4 * d[1] * s[2]
                     + 3 * (s[2] - s[1]) * d[2]
    IN Min(10000, Max(0, (tenfold * 1000) \div (d[2] * s[2])))

\* text.replace(old, '')
RECURSIVE Remove(_, _)
Remove(text, old) ==
    IF Len(text) < Len(old) \/ old = <<>> THEN text
    ELSE IF SubSeq(text, 1, Len(old)) = old
         THEN Remove(SubSeq(text, Len(old) + 1, Len(text)), old)
         ELSE <<text[1]>> \o Remove(Tail(text), old)

\* _create_connection_object
ConnectionObject(g, path, novelty_score) ==
    [start_interest |-> path[1],
     end_interest |-> path[Len(path)],
     content_bridge |->
        Table([k \in 1..Len(BridgeNodes(path)) |->
            [id |-> Remove(BridgeNodes(path)[k], T_content_),
             title |-> NodeData(g, BridgeNodes(path)[k]).title,
             tags |-> NodeData(g, BridgeNodes(path)[k]).tags,
             category |-> NodeData(g, BridgeNodes(path)[k]).category]]),
     novelty_score |-> novelty_score,
     path_length |-> Len(path),
     connection_type |-> "cross_domain"]

\* the pairs of places i < j of a list, in loop order
RECURSIVE PairsFrom(_, _, _)
PairsFrom(n, i, j) ==
    IF i >= n THEN <<>>
    ELSE IF j > n THEN PairsFrom(n, i + 1, i + 2)
         ELSE <<<<i, j>>>> \o PairsFrom(n, i, j + 1)

Pairs(n) == PairsFrom(n, 1, 2)

\* the lists novel_connections can be after the pairs from place k on, one
\* for every choice of shortest paths
RECURSIVE NovelFrom(_, _, _, _)
NovelFrom(g, names, pairs, k) ==
    IF k > Len(pairs) THEN {<<>>}
    ELSE LET a == names[pairs[k][1]]
             b == names[pairs[k][2]]
             one(path) ==
                 LET novelty_score == NoveltyScore(g, path)
                 IN IF Len(path) > 2 /\ novelty_score > 7000
                    THEN <<ConnectionObject(g, path, novelty_score)>>
                    ELSE <<>>
             shortest == ShortestPaths(g, a, b)
             here == IF {a, b} \in DOMAIN g.edges \/ shortest = {}
                     THEN {<<>>}
                     ELSE {one(path) : path \in shortest}
         IN {h \o t : h \in here, t \in NovelFrom(g, names, pairs, k + 1)}

\* connections.sort(key=novelty_score, reverse=True)[:max_connections]
TopByNovelty(connections, max_connections) ==
    LET order == SortedDesc(Table([k \in 1..Len(connections) |->
                                      connections[k].novelty_score]))
    IN Take([k \in 1..Len(connections) |-> connections[order[k]]], max_connections)

\* the results find_novel_connections can return on the graph it built
NovelConnections(g, max_connections) ==
    LET isInterest(node) == node.type = "interest"
        found_nodes == SelectSeq(g.nodes, isInterest)
        names == Table([k \in 1..Len(found_nodes) |-> found_nodes[k].name])
    IN {TopByNovelty(l, max_connections) :
           l \in NovelFrom(g, names, Pairs(Len(names)), 1)}

\* find_novel_connections up to the return of build_connection_graph:
\* self.graph holds the graph of this call's arguments
BeginFindNovelConnections(caller, user_interests, content_data, max_connections) ==
    /\ running[caller] = Idle
    /\ graph' = BuildConnectionGraph(user_interests, content_data)
    /\ running' = [running EXCEPT ![caller] =
                      [op |-> "find_novel_connections",
                       user_interests |-> user_interests,
                       content_data |-> content_data,
                       max_connections |-> max_connections]]
    /\ UNCHANGED <<found, store_vars, engine_vars>>

\* the rest of find_novel_connections: self.graph, as it is now, is searched
EndFindNovelConnections(caller) ==
    /\ running[caller] # Idle
    /\ found' \in {[op |-> "find_novel_connections",
                    service |-> "CrossInterestConnectionMap",
                    caller |-> caller,
                    user_interests |-> running[caller].user_interests,
                    content_data |-> running[caller].content_data,
                    max_connections |-> running[caller].max_connections,
                    result |-> result] :
                      result \in NovelConnections(graph,
                                     running[caller].max_connections)}
    /\ running' = [running EXCEPT ![caller] = Idle]
    /\ UNCHANGED <<graph, store_vars, engine_vars>>

\* find_novel_connections: the graph is rebuilt, then searched
FindNovelConnections(user_interests, content_data, max_connections) ==
    /\ graph' = BuildConnectionGraph(user_interests, content_data)
    /\ found' \in {[op |-> "find_novel_connections",
                    service |-> "CrossInterestConnectionMap",
                    user_interests |-> user_interests,
                    content_data |-> content_data,
                    max_connections |-> max_connections,
                    result |-> result] :
                      result \in NovelConnections(graph', max_connections)}
    /\ UNCHANGED <<running, store_vars, engine_vars>>

\* suggest_exploration_paths: the novelty a connection needs at a level
ExplorationThreshold(exploration_level) ==
    CASE exploration_level = "conservative" -> 8000
      [] exploration_level = "moderate" -> 6000
      [] exploration_level = "adventurous" -> 4000
      [] OTHER -> 6000

\* the categories of a content bridge, one for each item
BridgeCategoriesOf(connection) ==
    {connection.content_bridge[k].category :
        k \in 1..Len(connection.content_bridge)}

\* _generate_connection_reasoning: the sentence and the categories it names
\* (list(set(categories)) gives them in an order Python chooses)
ConnectionReasoning(connection) ==
    IF Len(connection.content_bridge) = 1
    THEN [says |-> "through content about",
          categories |-> BridgeCategoriesOf(connection)]
    ELSE [says |-> "through multiple perspectives",
          categories |-> BridgeCategoriesOf(connection)]

\* _calculate_exploration_value: novelty * 0.4 + min(1, count / 5) * 0.3
\* + category diversity * 0.2 + min(1, (path_length - 2) / 5) * 0.1 in [0, 1]
ExplorationValue(connection) ==
    LET count == Len(connection.content_bridge)
        diversity == (Cardinality(BridgeCategoriesOf(connection)) * 10000)
                         \div Max(1, count)
        tenfold == 4 * connection.novelty_score
                     + 3 * Min(10000, count * 2000)
                     + 2 * diversity
                     + Min(10000, (connection.path_length - 2) * 2000)
    IN Min(10000, Max(0, tenfold \div 10))

\* the connections of a list that a level lets through, with their reasoning
\* and value, sorted by value
ExplorationPaths(novel_connections, exploration_level) ==
    LET lets(connection) ==
            connection.novelty_score >= ExplorationThreshold(exploration_level)
        filtered == SelectSeq(novel_connections, lets)
        valued == Table([k \in 1..Len(filtered) |->
                     [start_interest |-> filtered[k].start_interest,
                      end_interest |-> filtered[k].end_interest,
                      content_bridge |-> filtered[k].content_bridge,
                      novelty_score |-> filtered[k].novelty_score,
                      path_length |-> filtered[k].path_length,
                      connection_type |-> filtered[k].connection_type,
                      reasoning |-> ConnectionReasoning(filtered[k]),
                      exploration_value |-> ExplorationValue(filtered[k])]])
        order == SortedDesc(Table([k \in 1..Len(valued) |->
                                      valued[k].exploration_value]))
    IN Table([k \in 1..Len(valued) |-> valued[order[k]]])

\* suggest_exploration_paths: find_novel_connections with its default
\* max_connections = 10, then the filter of the level
SuggestExplorationPaths(user_interests, content_data, exploration_level) ==
    /\ graph' = BuildConnectionGraph(user_interests, content_data)
    /\ found' \in {[op |-> "suggest_exploration_paths",
                    service |-> "CrossInterestConnectionMap",
                    user_interests |-> user_interests,
                    content_data |-> content_data,
                    max_connections |-> 10,
                    exploration_level |-> exploration_level,
                    result |-> ExplorationPaths(novel, exploration_level)] :
                      novel \in NovelConnections(graph', 10)}
    /\ UNCHANGED <<running, store_vars, engine_vars>>

-----------------------------------------------------------------------------
(* MockConnectionMapService, the service the API calls.  A random.uniform or  *)
(* random.randint draw is any of a few values of its range, the ends among    *)
(* them.  Scores are in 1/10000.                                              *)

\* random.uniform(0.1, 0.9), random.uniform(0.5, 0.9), random.uniform(0.6, 0.9)
PairSimilarityDraws == {3000, 9000}
PairNoveltyDraws == {5000, 7000, 9000}
PairValueDraws == {6000, 9000}

\* random.randint(1000, 9999)
BridgeIdDraws == {1000, 9999}

\* random.uniform(0.4, 0.8), random.uniform(0.7, 0.9), random.uniform(0.7, 0.9)
CrossSimilarityDraws == {4000, 8000}
CrossNoveltyDraws == {7000, 9000}
CrossValueDraws == {7000, 9000}

\* _find_bridging_content: one made-up item
FindBridgingContent(interest1, interest2, id) ==
    <<[id |-> id,
       title |-> <<"Bridging", interest1.name, interest2.name>>,
       content |-> <<"Content that connects", interest1.name, interest2.name>>,
       tags |-> <<interest1.name, interest2.name, T_bridge>>,
       category |-> T_cross_domain]>>

\* _create_mock_connection: what it can return, <<>> standing for None
CreateMockConnection(interest1, interest2) ==
    {IF d[1] > 3000
     THEN <<[interest1 |-> interest1.name,
             interest2 |-> interest2.name,
             similarity_score |-> d[1],
             novelty_score |-> d[2],
             connection_type |-> "cross_interest",
             bridging_content |-> FindBridgingContent(interest1, interest2, d[3]),
             reasoning |-> <<"Connecting", interest1.name, interest2.name>>,
             exploration_value |-> d[4]]>>
     ELSE <<>> :
        d \in PairSimilarityDraws \X PairNoveltyDraws \X BridgeIdDraws
                 \X PairValueDraws}

\* the lists the pair loop can have appended from pair k on
RECURSIVE MockPairsFrom(_, _, _)
MockPairsFrom(user_interests, pairs, k) ==
    IF k > Len(pairs) THEN {<<>>}
    ELSE {h \o t :
             h \in CreateMockConnection(user_interests[pairs[k][1]],
                                        user_interests[pairs[k][2]]),
             t \in MockPairsFrom(user_interests, pairs, k + 1)}

\* the domain pairs of _generate_cross_domain_connections
CrossDomains ==
    <<<<T_technology, T_climate_change>>, <<T_science, T_business>>,
      <<T_politics, T_technology>>, <<T_health, T_technology>>,
      <<T_education, T_artificial_intelligence>>>>

\* _generate_cross_domain_connections: the lists it can return from pair k on
RECURSIVE CrossDomainFrom(_, _)
CrossDomainFrom(user_interests, k) ==
    IF k > Len(CrossDomains) THEN {<<>>}
    ELSE LET hit == \E i \in 1..Len(user_interests) :
                       Contains(Lower(CrossDomains[k][1]),
                                Lower(user_interests[i].name))
             here == IF hit
                     THEN {<<[interest1 |-> CrossDomains[k][1],
                              interest2 |-> CrossDomains[k][2],
                              similarity_score |-> d[1],
                              novelty_score |-> d[2],
                              connection_type |-> "cross_domain",
                              bridging_content |-> <<>>,
                              reasoning |-> <<"Exploring connections between",
                                              CrossDomains[k][1], CrossDomains[k][2]>>,
                              exploration_value |-> d[3]]>> :
                             d \in CrossSimilarityDraws \X CrossNoveltyDraws
                                      \X CrossValueDraws}
                     ELSE {<<>>}
         IN {h \o t : h \in here, t \in CrossDomainFrom(user_interests, k + 1)}

\* MockConnectionMapService.find_novel_connections
MockFindNovelConnections(user_interests, content_data, max_connections) ==
    /\ found' \in
          {[op |-> "find_novel_connections",
            service |-> "MockConnectionMapService",
            user_interests |-> user_interests,
            content_data |-> content_data,
            max_connections |-> max_connections,
            result |-> TopByNovelty(l[1] \o l[2], max_connections)] :
              l \in MockPairsFrom(user_interests, Pairs(Len(user_interests)), 1)
                       \X CrossDomainFrom(user_interests, 1)}
    /\ UNCHANGED <<graph, running, store_vars, engine_vars>>

\* _create_exploration_path: steps by exploration level
PathStepCount(exploration_level) ==
    CASE exploration_level = "conservative" -> 2
      [] exploration_level = "moderate" -> 3
      [] OTHER -> 4

\* topic_progressions of _generate_next_topic, in the order of the dict
TopicProgressions ==
    <<[base_topic |-> T_machine_learning,
       progression |-> <<T_deep_learning, T_neural_networks, T_AI_ethics>>],
      [base_topic |-> T_climate_change,
       progression |-> <<T_renewable_energy, T_sustainable_technology, T_green_policy>>],
      [base_topic |-> T_artificial_intelligence,
       progression |-> <<T_machine_learning, T_computer_vision, T_AI_safety>>],
      [base_topic |-> T_technology,
       progression |-> <<T_innovation, T_startups, T_future_trends>>],
      [base_topic |-> T_science,
       progression |-> <<T_research, T_discovery, T_breakthroughs>>]>>

\* the entries of the table whose key occurs in the topic
ProgressionsIn(topic) ==
    {k \in 1..Len(TopicProgressions) :
        Contains(Lower(topic), Lower(TopicProgressions[k].base_topic))}

\* _generate_next_topic; step counts from 0
GenerateNextTopic(current_topic, step) ==
    LET hits == ProgressionsIn(current_topic)
    IN IF hits = {} THEN T_Advanced_ \o current_topic
       ELSE LET k == CHOOSE h \in hits : \A o \in hits : h <= o
                entry == TopicProgressions[k]
            IN IF step < Len(entry.progression) THEN entry.progression[step + 1]
               ELSE T_Advanced_ \o entry.base_topic

\* random.uniform(0.6, 0.9), random.uniform(0.5, 0.9), random.uniform(0.4, 0.8)
StepConfidenceDraws == {6000, 9000}
PathValueDraws == {5000, 9000}
PathNoveltyDraws == {4000, 8000}

\* the loop of _create_exploration_path from step i on: the step lists it
\* can append
RECURSIVE PathStepsFrom(_, _, _)
PathStepsFrom(current_topic, i, steps) ==
    IF i >= steps THEN {<<>>}
    ELSE LET next_topic == GenerateNextTopic(current_topic, i)
             rest == PathStepsFrom(next_topic, i + 1, steps)
         IN {<<[topic |-> next_topic,
                reasoning |-> <<"Exploring", next_topic,
                                "as a natural progression from", current_topic>>,
                confidence |-> confidence]>> \o t :
                confidence \in StepConfidenceDraws, t \in rest}

\* _create_exploration_path: the paths it can return
CreateExplorationPath(interest, content_data, exploration_level) ==
    {[starting_interest |-> interest.name,
      path_steps |-> path_steps,
      exploration_level |-> exploration_level,
      total_value |-> d[1],
      novelty_score |-> d[2]] :
        path_steps \in PathStepsFrom(interest.name, 0, PathStepCount(exploration_level)),
        d \in PathValueDraws \X PathNoveltyDraws}

\* unexpected_connections of _generate_unexpected_paths
UnexpectedConnections ==
    <<<<T_technology, T_art>>, <<T_science, T_philosophy>>,
      <<T_business, T_psychology>>, <<T_politics, T_psychology>>,
      <<T_health, T_technology>>>>

\* random.uniform(0.4, 0.7), random.uniform(0.6, 0.9), random.uniform(0.8, 0.95)
UnexpectedConfidenceDraws == {4000, 7000}
UnexpectedValueDraws == {6000, 9000}
UnexpectedNoveltyDraws == {8000, 9500}

\* _generate_unexpected_paths from interest i, domain pair k on: the lists
\* it can return
RECURSIVE UnexpectedPathsFrom(_, _, _)
UnexpectedPathsFrom(user_interests, i, k) ==
    IF i > Len(user_interests) THEN {<<>>}
    ELSE IF k > Len(UnexpectedConnections)
    THEN UnexpectedPathsFrom(user_interests, i + 1, 1)
    ELSE LET domain1 == UnexpectedConnections[k][1]
             domain2 == UnexpectedConnections[k][2]
             rest == UnexpectedPathsFrom(user_interests, i, k + 1)
             here == IF Contains(Lower(user_interests[i].name), Lower(domain1))
                     THEN {<<[starting_interest |-> user_interests[i].name,
                              path_steps |->
                                  <<[topic |-> domain2,
                                     reasoning |-> <<"Unexpected connection between",
                                                     domain1, domain2>>,
                                     confidence |-> d[1]]>>,
                              exploration_level |-> "aggressive",
                              total_value |-> d[2],
                              novelty_score |-> d[3]]>> :
                             d \in UnexpectedConfidenceDraws \X UnexpectedValueDraws
                                      \X UnexpectedNoveltyDraws}
                     ELSE {<<>>}
         IN {h \o t : h \in here, t \in rest}

\* the loop of suggest_exploration_paths over the interests from i on
RECURSIVE InterestPathsFrom(_, _, _, _)
InterestPathsFrom(user_interests, content_data, exploration_level, i) ==
    IF i > Len(user_interests) THEN {<<>>}
    ELSE LET rest == InterestPathsFrom(user_interests, content_data,
                                       exploration_level, i + 1)
         IN {<<path>> \o t :
                path \in CreateExplorationPath(user_interests[i], content_data,
                                               exploration_level),
                t \in rest}

\* MockConnectionMapService.suggest_exploration_paths
MockSuggestExplorationPaths(user_interests, content_data, exploration_level) ==
    /\ found' \in
          {[op |-> "suggest_exploration_paths",
            service |-> "MockConnectionMapService",
            user_interests |-> user_interests,
            content_data |-> content_data,
            exploration_level |-> exploration_level,
            result |-> Take(l[1] \o l[2], 10)] :
              l \in InterestPathsFrom(user_interests, content_data,
                                      exploration_level, 1)
                       \X UnexpectedPathsFrom(user_interests, 1, 1)}
    /\ UNCHANGED <<graph, running, store_vars, engine_vars>>

-----------------------------------------------------------------------------
(* Feedback on a populated store *)

SeedContent ==
    (1 :> ContentRow(T_ai_ml, <<>>, <<T_ai, T_ml>>, 2, 1)) @@
    (2 :> ContentRow(T_ai, T_art, <<T_ai>>, 1, 2))

SeedWeights == {10, 100, 200}

SeedInterests(w) ==
    <<Interest(1, T_ai, w), Interest(1, T_ai_ml, w), Interest(1, T_art, 100),
      Interest(2, T_AI, w)>>

\* two records served to user 1 for content 1; no other pair has a record
SeedRecommendations ==
    <<Recommendation(1, 1, 50000), Recommendation(1, 1, 95000)>>

\* two catalog ids and one id absent from the catalog
FeedbackContentIds == {1, 2, 9}

Topics == {T_ai, T_AI, T_ai_ml, T_art}

\* the topics update_interest_weight is called with: one held in this
\* spelling by user 1 only, one by user 2 only
UpdatedTopics == {T_ai, T_AI}

WeightChanges == {-250, 250}

InitFeedback ==
    /\ content = SeedContent
    /\ \E w \in SeedWeights : interests = SeedInterests(w)
    /\ interactions = <<>>
    /\ recommendations = SeedRecommendations
    /\ pending = <<>>
    /\ fk_enforced \in BOOLEAN
    /\ pre = [interests |-> interests, interactions |-> <<>>,
              recommendations |-> recommendations]
    /\ last = NoCall
    /\ calls = 0
    /\ FreshEngine
    /\ FreshMap

NextFeedback ==
    \/ \E u \in Users, c \in FeedbackContentIds, t \in InteractionTypes :
          SubmitFeedback(u, c, t)
    \/ \E u \in Users, t \in UpdatedTopics, d \in WeightChanges :
          UpdateInterestWeight(u, t, d)
    \/ CloseSession

SpecFeedback == InitFeedback /\ [][NextFeedback]_vars

-----------------------------------------------------------------------------
(* Claims about feedback, checked under SpecFeedback *)

\* the last call was a submit_feedback that returned normally
FeedbackDone == last.op = "submit_feedback" /\ last.error = ""

\* the interests of the calling user whose topic matches a tag of the content
MatchingInterests ==
    {k \in 1..Len(pre.interests) :
        /\ pre.interests[k].user_id = last.user_id
        /\ \E j \in 1..Len(content[last.content_id].tags) :
              ILikeMatch(pre.interests[k].topic, content[last.content_id].tags[j])}

\* C1: starting from weights in [0.1, 2.0], after any sequence of
\* submit_feedback and update_interest_weight calls every stored interest
\* weight of every user is in [0.1, 2.0].
C1_WeightBounds ==
    \A k \in 1..Len(interests) :
        interests[k].weight >= 10 /\ interests[k].weight <= 200

\* a dislike reached the only interest of its user, which sat at 0.1 and stays there
C1_Witness ==
    /\ FeedbackDone
    /\ last.interaction_type = "dislike"
    /\ \E k \in MatchingInterests :
          /\ MatchingInterests = {k}
          /\ pre.interests[k].weight = 10
          /\ interests[k].weight = 10

\* C6: submit_feedback with a content id absent from the catalog fails with
\* 'Content not found' and leaves the log, the weights and the records
\* unchanged; no interaction of a failed call is ever persisted, also when
\* the same session later commits another operation.
C6_FailedFeedbackLeavesNoTrace ==
    /\ (last.op = "submit_feedback" /\ last.content_id \notin DOMAIN content)
          => (last.error = "Content not found" /\ Snapshot = pre)
    /\ \A k \in 1..Len(interactions) :
          interactions[k].content_id \in DOMAIN content

\* C7: submit_feedback for an existing content id with no RecommendationRecord
\* for (user, content) completes without error, appends exactly one
\* interaction, applies the delta to the matching interests and creates or
\* changes no RecommendationRecord.
C7_FeedbackWithoutRecord ==
    (/\ last.op = "submit_feedback"
     /\ last.content_id \in DOMAIN content
     /\ RecsFor(pre.recommendations, last.user_id, last.content_id) = {})
    => /\ last.error = ""
       /\ interactions = Append(pre.interactions,
             Interaction(last.user_id, last.content_id, last.interaction_type))
       /\ \A k \in MatchingInterests :
             interests[k].weight =
                ClampWeight(pre.interests[k].weight
                            + WeightChange(last.interaction_type))
       /\ recommendations = pre.recommendations

\* C8: on a like (+0.1) or dislike (-0.1) every interest of the user whose
\* topic matches at least one tag of the content gets clamp(w + d, 0.1, 2.0),
\* d applied exactly once per interest.
C8_EveryMatchingInterestOnce ==
    (FeedbackDone /\ last.interaction_type \in {"like", "dislike"})
    => \A k \in MatchingInterests :
          interests[k].weight =
             ClampWeight(pre.interests[k].weight
                         + WeightChange(last.interaction_type))

\* a stored score (1/100000) moved by d (hundredths) and kept in [0, 1]
NudgedScore(s, d) == Max(0, Min(100000, s + 1000 * d))

\* C9: when a RecommendationRecord exists for (user, content), submit_feedback
\* changes its stored score by +0.1 for a like and -0.1 for a dislike,
\* clamped to [0, 1].
C9_RecordScoreNudged ==
    (/\ FeedbackDone
     /\ last.interaction_type \in {"like", "dislike"}
     /\ RecsFor(pre.recommendations, last.user_id, last.content_id) # {})
    => \E k \in RecsFor(pre.recommendations, last.user_id, last.content_id) :
          recommendations[k].score =
             NudgedScore(pre.recommendations[k].score,
                         WeightChange(last.interaction_type))

-----------------------------------------------------------------------------
(* Onboarding and adding interests on an empty store *)

OnboardingLists == {<<>>, <<T_ai>>, <<T_ai, T_art>>, <<T_ai, T_ai>>}

RequestedWeights == {5, 100, 250}

InitInterest ==
    /\ content = SeedContent
    /\ interests = <<>>
    /\ interactions = <<>>
    /\ recommendations = <<>>
    /\ pending = <<>>
    /\ fk_enforced \in BOOLEAN
    /\ pre = [interests |-> <<>>, interactions |-> <<>>, recommendations |-> <<>>]
    /\ last = NoCall
    /\ calls = 0
    /\ FreshEngine
    /\ FreshMap

NextInterest ==
    \/ \E u \in Users, l \in OnboardingLists : CompleteOnboarding(u, l)
    \/ \E u \in Users, t \in Topics, w \in RequestedWeights : AddInterest(u, t, w)

SpecInterest == InitInterest /\ [][NextInterest]_vars

\* C10: after any sequence of complete_onboarding and add_interest calls
\* (new or already-held topic, any requested weight) every stored interest
\* weight lies in [0.1, 2.0].
C10_AddedWeightsInRange ==
    last.op \in {"none", "complete_onboarding", "add_interest"}
    => \A k \in 1..Len(interests) :
          interests[k].weight \in 10..200

-----------------------------------------------------------------------------
(* Recommendations on a populated store *)

\* a third item without tags, ingested last and published first
RecentContent ==
    SeedContent @@ (3 :> ContentRow(T_art, <<>>, <<>>, 3, 0))

\* user 1 holds interests, user 2 holds none or one
RecommendInterests ==
    {<<Interest(1, T_ai, 100), Interest(1, T_art, 100)>>,
     <<Interest(1, T_ai, 100), Interest(2, T_ai, 100)>>}

RecommendInteractions ==
    {<<>>, <<Interaction(2, 2, "like"), Interaction(2, 1, "view")>>}

MaxLimit == 3

InitRecommend ==
    /\ content \in {SeedContent, RecentContent}
    /\ interests \in RecommendInterests
    /\ interactions \in RecommendInteractions
    /\ recommendations = <<>>
    /\ pending = <<>>
    /\ fk_enforced \in BOOLEAN
    /\ pre = [interests |-> interests, interactions |-> interactions,
              recommendations |-> <<>>]
    /\ last = NoCall
    /\ calls = 0
    /\ FreshEngine
    /\ FreshMap

NextRecommend == \E u \in Users, limit \in 0..MaxLimit : GetRecommendations(u, limit)

SpecRecommend == InitRecommend /\ [][NextRecommend]_vars

\* C4: for a user with zero interests get_recommendations(user, limit)
\* returns exactly min(limit, catalog size) items, the most recently
\* published ones (by published_at) in descending recency order, without
\* running the scorers.
C4_RecencyFallback ==
    (last.op = "get_recommendations"
       /\ \A k \in 1..Len(pre.interests) : pre.interests[k].user_id # last.user_id)
    => /\ last.path = "recent"
       /\ recommendations = pre.recommendations
       /\ Len(last.result) = Min(last.limit, Cardinality(DOMAIN content))
       /\ \A i, j \in 1..Len(last.result) :
             i < j => content[last.result[i]].published_at
                         >= content[last.result[j]].published_at
       /\ \A c \in DOMAIN content :
             (\A i \in 1..Len(last.result) : last.result[i] # c)
             => \A i \in 1..Len(last.result) :
                   content[last.result[i]].published_at >= content[c].published_at

-----------------------------------------------------------------------------
(* One engine instance, called with lists from a small catalogue *)

Item1 == ContentDict(1, T_ai_ml, <<>>, <<TagDict(1, T_ai), TagDict(2, T_ml)>>)
Item2 == ContentDict(2, T_art, T_paint, <<TagDict(3, T_art)>>)
Item3 == ContentDict(3, T_health_policy, <<>>,
                     <<TagDict(4, T_health), TagDict(5, T_policy)>>)

\* an item whose text is stop words only: the vectorizer finds no vocabulary
Item5 == ContentDict(5, T_the, <<>>, <<TagDict(6, T_and)>>)

\* under id 1, an item about "ai" whose only tag is a stop word
Item6 == ContentDict(1, T_ai, <<>>, <<TagDict(7, T_the)>>)

EngineContent ==
    {<<>>, <<Item1, Item2, Item3>>, <<Item3, Item2>>, <<Item5>>, <<Item6>>}

\* the interests of user 1 and of user 2; the ids are the row ids
EngineInterests ==
    {<<InterestDict(1, T_ai, 100)>>,
     <<InterestDict(2, T_art, 100), InterestDict(3, T_ai, 150)>>}

EngineInteractions ==
    {<<>>,
     <<Interaction(1, 1, "like"), Interaction(2, 1, "like"),
       Interaction(2, 2, "view"), Interaction(1, 3, "view")>>,
     <<Interaction(2, 2, "like")>>}

InitEngine ==
    /\ content = <<>>
    /\ interests = <<>>
    /\ interactions = <<>>
    /\ recommendations = <<>>
    /\ pending = <<>>
    /\ fk_enforced = FALSE
    /\ pre = [interests |-> <<>>, interactions |-> <<>>, recommendations |-> <<>>]
    /\ last = NoCall
    /\ calls = 0
    /\ FreshEngine
    /\ FreshMap

NextEngine ==
    \/ \E user_interests \in EngineInterests :
          BuildInterestGraph(user_interests, <<Item1, Item2, Item3>>)
    \/ GetHybridRecommendations(Users, EngineInterests, EngineContent,
                                EngineInteractions, 0..MaxLimit)

SpecEngine == InitEngine /\ [][NextEngine]_vars

\* the arguments of a get_hybrid_recommendations call
HybridArguments(h) ==
    <<h.user_id, h.user_interests, h.content_data, h.user_interactions, h.limit>>

\* C2: two calls of get_hybrid_recommendations with identical (user_id,
\* interests, content list, interaction log, limit) on the same engine
\* instance return the same ordered list with the same scores, whatever
\* operations (build_interest_graph on other data, rankings for other users)
\* were executed on that instance before or between the two calls.  Here: a
\* call that repeats the arguments of the call before it, with or without
\* builds in between, returns what that call returned.
C2_SameArgumentsSameRanking ==
    [][(/\ hybrid.op = "get_hybrid_recommendations"
        /\ hybrid'.op = "get_hybrid_recommendations"
        /\ HybridArguments(hybrid') = HybridArguments(hybrid))
       => hybrid'.result = hybrid.result]_vars

\* every entry of a score map lies between 0 and one
InUnitInterval(scores, one) ==
    \A c \in DOMAIN scores : 0 <= scores[c] /\ scores[c] <= one

\* C3: each of the four scorer outputs (text similarity, collaborative, graph
\* propagation, cross-domain novelty) and the fused score computed by
\* get_hybrid_recommendations lies in [0, 1] for every content item.
C3_ScoresInUnitInterval ==
    hybrid.op = "get_hybrid_recommendations"
    => /\ InUnitInterval(hybrid.tfidf_scores, 10000)
       /\ InUnitInterval(hybrid.collaborative_scores, 10000)
       /\ InUnitInterval(hybrid.graph_scores, 10000)
       /\ InUnitInterval(hybrid.cross_domain_scores, 10000)
       /\ InUnitInterval(hybrid.final_scores, 100000)

\* a call in which all four scorers gave some item a positive score, the
\* collaborative one its greatest
C3_Witness ==
    /\ hybrid.op = "get_hybrid_recommendations"
    /\ \E c \in DOMAIN hybrid.final_scores :
          /\ Get(hybrid.tfidf_scores, c) > 0
          /\ Get(hybrid.collaborative_scores, c) = 10000
          /\ Get(hybrid.graph_scores, c) > 0
          /\ Get(hybrid.cross_domain_scores, c) > 0

-----------------------------------------------------------------------------
(* The two connection services, called with lists from a small catalogue *)

\* content 1 joins "ai" and "health"; content 2 is about art
MapItem1 == MapContent(1, T_ai, <<T_ai, T_health>>, T_tech)
MapItem2 == MapContent(2, T_art, <<T_art>>, T_general)

MapContentLists == {<<>>, <<MapItem1, MapItem2>>}

\* "ai ml" - "ml art" - "art" hang together without content
MapInterestLists ==
    {<<>>,
     <<NamedInterest(T_ai, T_tech), NamedInterest(T_health, T_health)>>,
     <<NamedInterest(T_ai_ml, T_tech), NamedInterest(T_ml_art, T_general),
       NamedInterest(T_art, T_general)>>,
     \* a chain of four: each interest shares a word with the next one only
     <<NamedInterest(T_ai_ml, T_tech), NamedInterest(T_ml_art, T_general),
       NamedInterest(T_art_health, T_general),
       NamedInterest(T_health_tech, T_health)>>}

\* the mock is called with at most two interests
MockInterestLists ==
    {<<>>,
     <<NamedInterest(T_ai, T_tech), NamedInterest(T_health, T_health)>>,
     <<NamedInterest(T_tech, T_tech), NamedInterest(T_art, T_general)>>}

\* max_connections: 10 is the default
ConnectionLimits == {1, 10}

InitConnection ==
    /\ content = <<>>
    /\ interests = <<>>
    /\ interactions = <<>>
    /\ recommendations = <<>>
    /\ pending = <<>>
    /\ fk_enforced = FALSE
    /\ pre = [interests |-> <<>>, interactions |-> <<>>, recommendations |-> <<>>]
    /\ last = NoCall
    /\ calls = 0
    /\ FreshEngine
    /\ FreshMap

NextConnection ==
    \/ \E user_interests \in MapInterestLists, content_data \in MapContentLists,
          max_connections \in ConnectionLimits :
          FindNovelConnections(user_interests, content_data, max_connections)
    \/ \E user_interests \in MockInterestLists, content_data \in MapContentLists,
          max_connections \in ConnectionLimits :
          MockFindNovelConnections(user_interests, content_data, max_connections)

SpecConnection == InitConnection /\ [][NextConnection]_vars

\* the nodes on the path of a connection: the real map reports them, a
\* connection of the mock has its two interests and its bridging content
PathLength(connection) ==
    IF "path_length" \in DOMAIN connection THEN connection.path_length
    ELSE 2 + Len(connection.bridging_content)

\* C5: every connection returned by find_novel_connections, both in
\* CrossInterestConnectionMap and in the MockConnectionMapService that the
\* API endpoint calls, has path length > 2 and novelty score > 0.7.
C5_NovelConnectionsOnly ==
    \A k \in 1..Len(found.result) :
       /\ PathLength(found.result[k]) > 2
       /\ found.result[k].novelty_score > 7000

-----------------------------------------------------------------------------
(* The two rankers side by side: RecommendationService on a stored catalogue *)
(* and LJKRecommendationEngine on content lists handed to it                 *)

\* item 1 again, under another id: its fused score is that of item 1
Item4 == ContentDict(4, T_ai_ml, <<>>, <<TagDict(1, T_ai), TagDict(2, T_ml)>>)

RankingContent ==
    {<<Item1, Item2, Item3>>, <<Item3, Item2>>, <<Item4, Item3, Item1>>}

InitRanking ==
    /\ content = RecentContent
    /\ interests \in RecommendInterests
    /\ interactions \in RecommendInteractions
    /\ recommendations = <<>>
    /\ pending = <<>>
    /\ fk_enforced = FALSE
    /\ pre = [interests |-> interests, interactions |-> interactions,
              recommendations |-> <<>>]
    /\ last = NoCall
    /\ calls = 0
    /\ FreshEngine
    /\ FreshMap

NextRanking ==
    \/ \E u \in Users, limit \in 0..MaxLimit : GetRecommendations(u, limit)
    \/ GetHybridRecommendations({1}, EngineInterests, RankingContent, {<<>>},
                                0..MaxLimit)

SpecRanking == InitRanking /\ [][NextRanking]_vars

\* a ranked list of ids with their scores: as many as asked for or as there
\* are, best first, and nothing better left out
RankedRight(ranked, score, ids, limit) ==
    /\ Len(ranked) = Min(limit, Len(ids))
    /\ \A k \in 1..Len(ranked) : \E j \in 1..Len(ids) : ids[j] = ranked[k]
    /\ \A k \in 1..(Len(ranked) - 1) : score[ranked[k]] >= score[ranked[k + 1]]
    /\ \A j \in 1..Len(ids) :
          (\A k \in 1..Len(ranked) : ranked[k] # ids[j])
          => \A k \in 1..Len(ranked) : score[ids[j]] <= score[ranked[k]]

\* the ids of the scored content, in ascending order
ScoredIds(score) ==
    CHOOSE p \in Perms(DOMAIN score) : \A k \in 1..(Len(p) - 1) : p[k] < p[k + 1]

\* C11: for every limit >= 0 the list ranked by get_hybrid_recommendations,
\* and by the scored path of get_recommendations, has exactly min(limit,
\* number of content items) items in non-increasing fused-score order, and no
\* omitted item has a strictly higher fused score than a returned one.
C11_TopOfRanking ==
    /\ hybrid.op = "get_hybrid_recommendations"
       => /\ RankedRight([k \in 1..Len(hybrid.result) |-> hybrid.result[k].content.id],
                         hybrid.final_scores, IdsOf(hybrid.content_data),
                         hybrid.limit)
          /\ \A k \in 1..Len(hybrid.result) :
                hybrid.result[k].score =
                    hybrid.final_scores[hybrid.result[k].content.id]
    /\ (last.op = "get_recommendations" /\ last.path = "scored" /\ last.error = "")
       => RankedRight(last.result, last.final_scores,
                      ScoredIds(last.final_scores), last.limit)

\* both rankers cut their list short of a lower-scored item, after ranking
\* items of different scores
C11_Witness ==
    /\ hybrid.op = "get_hybrid_recommendations"
    /\ Len(hybrid.result) = 2
    /\ Len(hybrid.content_data) = 3
    /\ hybrid.result[1].score > hybrid.result[2].score
    /\ \E c \in DOMAIN hybrid.final_scores :
          hybrid.final_scores[c] < hybrid.result[2].score
    /\ last.op = "get_recommendations" /\ last.path = "scored" /\ last.error = ""
    /\ Len(last.result) = 1
    /\ \E c \in DOMAIN last.final_scores :
          last.final_scores[c] < last.final_scores[last.result[1]]

\* C12: among ranked items with equal fused score the item with the smaller
\* content id comes first, for every order in which the content list is
\* supplied.
C12_TiesByContentId ==
    /\ hybrid.op = "get_hybrid_recommendations"
       => \A k, l \in 1..Len(hybrid.result) :
             (k < l /\ hybrid.result[k].score = hybrid.result[l].score)
             => hybrid.result[k].content.id < hybrid.result[l].content.id
    /\ (last.op = "get_recommendations" /\ last.path = "scored" /\ last.error = "")
       => \A k, l \in 1..Len(last.result) :
             (k < l /\ last.final_scores[last.result[k]]
                          = last.final_scores[last.result[l]])
             => last.result[k] < last.result[l]

\* C13: a scored get_recommendations call that returns k items adds exactly
\* k RecommendationRecords, one per returned content id, each with the
\* requesting user's id, algorithm 'hybrid' and the item's fused score, and
\* leaves every previously stored record unchanged.
C13_OneRecordPerServedItem ==
    (last.op = "get_recommendations" /\ last.path = "scored" /\ last.error = "")
    => LET before == Len(pre.recommendations)
       IN /\ Len(recommendations) = before + Len(last.result)
          /\ SubSeq(recommendations, 1, before) = pre.recommendations
          /\ \A k \in 1..Len(last.result) :
                /\ recommendations[before + k].user_id = last.user_id
                /\ recommendations[before + k].content_id = last.result[k]
                /\ recommendations[before + k].algorithm = "hybrid"
                /\ recommendations[before + k].score
                       = last.final_scores[last.result[k]]

\* a scored call that served two items to a user when records were stored
C13_Witness ==
    /\ last.op = "get_recommendations" /\ last.path = "scored" /\ last.error = ""
    /\ Len(last.result) = 2
    /\ Len(pre.recommendations) > 0
    /\ Len(recommendations) = Len(pre.recommendations) + 2

\* C14: the fused score of every content item equals 0.4*text +
\* 0.3*collaborative + 0.2*propagation + 0.1*novelty (weights summing to 1),
\* where a scorer that failed or produced no entry for the item contributes 0
\* instead of aborting the ranking.
C14_FusedScore ==
    hybrid.op = "get_hybrid_recommendations"
    => /\ 4 + 3 + 2 + 1 = 10
       /\ Len(hybrid.result) = Min(hybrid.limit, Len(hybrid.content_data))
       /\ \A k \in 1..Len(hybrid.content_data) :
             LET c == hybrid.content_data[k].id
                 part(scores) == IF c \in DOMAIN scores THEN scores[c] ELSE 0
             IN /\ c \in DOMAIN hybrid.final_scores
                /\ hybrid.final_scores[c] =
                       4 * part(hybrid.tfidf_scores)
                       + 3 * part(hybrid.collaborative_scores)
                       + 2 * part(hybrid.graph_scores)
                       + 1 * part(hybrid.cross_domain_scores)

\* a call in which the text scorer failed on a vocabulary it could not build
\* and the graph scorer gave no entry, and the item was still ranked, on its
\* novelty alone
C14_Witness ==
    /\ hybrid.op = "get_hybrid_recommendations"
    /\ Len(hybrid.content_data) > 0
    /\ hybrid.tfidf_scores = <<>>
    /\ hybrid.graph_scores = <<>>
    /\ Len(hybrid.result) > 0
    /\ hybrid.result[1].score > 0
    /\ hybrid.result[1].score =
           Get(hybrid.cross_domain_scores, hybrid.result[1].content.id)

\* interest i of the call overlaps a tag of the content: a word of one is
\* found in the other, both lower-cased
OverlapsATag(c, user_interests) ==
    \E i \in 1..Len(user_interests), t \in 1..Len(c.tags) :
       WordOverlap(Lower(user_interests[i].topic), Lower(c.tags[t].name))

\* C15: the reasoning of a returned item names matching interests if and
\* only if at least one interest overlaps a tag of the content; otherwise it
\* is the high-quality label if and only if the item's score > 0.7, and the
\* exploration label in every remaining case.
C15_Reasoning ==
    hybrid.op = "get_hybrid_recommendations"
    => \A k \in 1..Len(hybrid.result) :
          LET r == hybrid.result[k]
              overlap == OverlapsATag(r.content, hybrid.user_interests)
          IN /\ r.reasoning.says \in {"interested in", "high-quality", "exploration"}
             /\ r.reasoning.says = "interested in" <=> overlap
             /\ r.reasoning.says = "interested in"
                => /\ r.reasoning.topics # <<>>
                   /\ \A n \in 1..Len(r.reasoning.topics) :
                         \E i \in 1..Len(hybrid.user_interests) :
                            /\ r.reasoning.topics[n]
                                   = Lower(hybrid.user_interests[i].topic)
                            /\ OverlapsATag(r.content, <<hybrid.user_interests[i]>>)
             /\ ~overlap => (r.reasoning.says = "high-quality" <=> r.score > 70000)

\* a returned item no interest overlaps, labelled high-quality for its score
C15_Witness ==
    /\ hybrid.op = "get_hybrid_recommendations"
    /\ \E k \in 1..Len(hybrid.result) :
          /\ ~OverlapsATag(hybrid.result[k].content, hybrid.user_interests)
          /\ hybrid.result[k].score > 70000
          /\ hybrid.result[k].reasoning.says = "high-quality"

\* the log holds no interaction of the user
NoHistory(user_id, log) == \A k \in 1..Len(log) : log[k].user_id # user_id

\* no other user of the log has Jaccard similarity above 0.1 with the user
NoNeighbour(user_id, log) ==
    \A k \in 1..Len(log) :
       log[k].user_id # user_id
       => 10 * Cardinality(ItemsOf(log, user_id) \cap ItemsOf(log, log[k].user_id))
             <= Cardinality(ItemsOf(log, user_id) \cup ItemsOf(log, log[k].user_id))

\* C16: calculate_collaborative_scores returns an empty map whenever the
\* target user has no interaction in the log or no other user has Jaccard
\* similarity above 0.1 with the target, and it never divides by zero.
C16_EmptyCollaborativeMap ==
    (/\ hybrid.op = "get_hybrid_recommendations"
     /\ \/ NoHistory(hybrid.user_id, hybrid.user_interactions)
        \/ NoNeighbour(hybrid.user_id, hybrid.user_interactions))
    => hybrid.collaborative_scores = <<>>

\* C17: every connection returned by
\* CrossInterestConnectionMap.find_novel_connections passes through at least
\* one content node (its content_bridge is non-empty), for every input,
\* including interest sets in which non-adjacent interests are linked
\* through other interests.
C17_ThroughContent ==
    (found.op = "find_novel_connections"
     /\ found.service = "CrossInterestConnectionMap")
    => \A k \in 1..Len(found.result) : found.result[k].content_bridge # <<>>

-----------------------------------------------------------------------------
(* CrossInterestConnectionMap on two interests and one bridging content item, *)
(* the category of the item varied                                            *)

BridgeCategories == {T_tech, T_general, T_health, T_science, T_business}

InterestCategories == {T_tech, T_general, T_health}

\* "ai" and "health" share no word: no direct edge
BridgeInterestLists ==
    {<<NamedInterest(T_ai, c1), NamedInterest(T_health, c2)>> :
        c1 \in InterestCategories, c2 \in InterestCategories}

\* the item tagged with both interests, in the category given
BridgeItem(category) == MapContent(1, T_ai, <<T_ai, T_health>>, category)

\* the call with the bridging item in one category; without the item
FindThroughBridge(category) ==
    \E user_interests \in BridgeInterestLists, max_connections \in ConnectionLimits :
       FindNovelConnections(user_interests, <<BridgeItem(category)>>, max_connections)

FindWithoutBridge ==
    \E user_interests \in BridgeInterestLists, max_connections \in ConnectionLimits :
       FindNovelConnections(user_interests, <<>>, max_connections)

NextBridge ==
    \/ \E category \in BridgeCategories : FindThroughBridge(category)
    \/ FindWithoutBridge

SpecBridge == InitConnection /\ [][NextBridge]_vars

\* the last call was on two interests with no direct edge, joined by the one
\* content item
BridgeCase ==
    /\ found.op = "find_novel_connections"
    /\ found.service = "CrossInterestConnectionMap"
    /\ Len(found.user_interests) = 2
    /\ Len(found.content_data) = 1
    /\ DOMAIN graph.edges =
          {{found.user_interests[1].name, ContentName(found.content_data[1].id)},
           {found.user_interests[2].name, ContentName(found.content_data[1].id)}}

\* the call returned the path interest -> content -> interest
ThroughBridge ==
    /\ Len(found.result) = 1
    /\ found.result[1].path_length = 3
    /\ found.result[1].start_interest = found.user_interests[1].name
    /\ found.result[1].end_interest = found.user_interests[2].name
    /\ Len(found.result[1].content_bridge) = 1
    /\ found.result[1].novelty_score > 7000

\* what the last call can return when the category of its one content item
\* is any of the given ones
OutcomesOver(categories) ==
    UNION {NovelConnections(
               BuildConnectionGraph(
                   found.user_interests,
                   <<[found.content_data[1] EXCEPT !.category = category]>>),
               found.max_connections) : category \in categories}

\* C18: for two interests with no direct edge that are joined by exactly one
\* bridging content item, find_novel_connections returns the 3-node path
\* interest -> content -> interest when its novelty score exceeds 0.7 and an
\* empty list otherwise, and both outcomes are reachable by varying the
\* category of the bridging content.
C18_BothOutcomes ==
    BridgeCase
    => /\ ThroughBridge \/ found.result = <<>>
       /\ \E r \in OutcomesOver(BridgeCategories) : r # <<>>
       /\ <<>> \in OutcomesOver(BridgeCategories)

-----------------------------------------------------------------------------
(* Exploration paths from the connection map *)

ExplorationLevels == {"conservative", "moderate", "adventurous", "bold"}

\* the interests of the connection map, and two that only content can join
ExploreInterestLists ==
    MapInterestLists \cup
       {<<NamedInterest(T_ai_ml, T_tech), NamedInterest(T_art, T_general)>>}

ExploreContentLists == MapContentLists \cup {<<MapItem1>>}

ExploreLimits == ConnectionLimits \cup {2}

NextExplore ==
    \/ \E user_interests \in ExploreInterestLists,
          content_data \in ExploreContentLists, max_connections \in ExploreLimits :
          FindNovelConnections(user_interests, content_data, max_connections)
    \/ \E user_interests \in ExploreInterestLists,
          content_data \in ExploreContentLists,
          exploration_level \in ExplorationLevels :
          SuggestExplorationPaths(user_interests, content_data, exploration_level)

SpecExplore == InitConnection /\ [][NextExplore]_vars

\* the interest nodes of the graph, by name, in node order
InterestNames(g) ==
    LET isInterest(node) == node.type = "interest"
        nodes == SelectSeq(g.nodes, isInterest)
    IN [k \in 1..Len(nodes) |-> nodes[k].name]

\* the candidate connections of the graph whose novelty is at least the
\* threshold on some shortest path (Some) or on every shortest path (~Some),
\* as pairs of interests
Candidates(g, threshold, Some) ==
    LET names == InterestNames(g)
        fits(path) == Len(path) > 2 /\ NoveltyScore(g, path) >= threshold
    IN {<<names[p[1]], names[p[2]]>> : p \in
          {q \in (1..Len(names)) \X (1..Len(names)) :
              /\ q[1] < q[2]
              /\ {names[q[1]], names[q[2]]} \notin DOMAIN g.edges
              /\ ShortestPaths(g, names[q[1]], names[q[2]]) # {}
              /\ IF Some
                 THEN \E path \in ShortestPaths(g, names[q[1]], names[q[2]]) :
                         fits(path)
                 ELSE \A path \in ShortestPaths(g, names[q[1]], names[q[2]]) :
                         fits(path)}}

\* C19: CrossInterestConnectionMap.suggest_exploration_paths(level) returns
\* exactly the candidate connections (interest pairs with no direct edge
\* whose shortest path has more than 2 nodes) whose novelty score is at least
\* the level's threshold, with conservative = 0.8, moderate = 0.6,
\* adventurous = 0.4 and 0.6 for any other level, so that a lower threshold
\* admits a superset.
C19_LevelThresholds ==
    (found.op = "suggest_exploration_paths"
     /\ found.service = "CrossInterestConnectionMap")
    => LET threshold == CASE found.exploration_level = "conservative" -> 8000
                          [] found.exploration_level = "moderate" -> 6000
                          [] found.exploration_level = "adventurous" -> 4000
                          [] OTHER -> 6000
           returned == {<<found.result[k].start_interest,
                          found.result[k].end_interest>> :
                           k \in 1..Len(found.result)}
       IN /\ Candidates(graph, threshold, FALSE) \subseteq returned
          /\ returned \subseteq Candidates(graph, threshold, TRUE)
          /\ \A k \in 1..Len(found.result) :
                found.result[k].novelty_score >= threshold

-----------------------------------------------------------------------------
(* Exploration paths of the mock service *)

\* one interest at a time: a key of the table, a key that leads to another
\* key, a name without a key, and a key that is also an unexpected domain
PathInterestLists ==
    {<<>>,
     <<NamedInterest(T_machine_learning, T_tech)>>,
     <<NamedInterest(T_artificial_intelligence, T_tech)>>,
     <<NamedInterest(T_art, T_general)>>,
     <<NamedInterest(T_technology, T_tech)>>}

NextPaths ==
    \E user_interests \in PathInterestLists, exploration_level \in ExplorationLevels :
       MockSuggestExplorationPaths(user_interests, <<>>, exploration_level)

SpecPaths == InitConnection /\ [][NextPaths]_vars

\* the first key of the table that occurs in the name
KeyOf(name) ==
    TopicProgressions[CHOOSE h \in ProgressionsIn(name) :
                         \A o \in ProgressionsIn(name) : h <= o]

\* C20: an exploration path built for a starting interest that contains a
\* key of the topic-progression table has n steps (2 for conservative, 3 for
\* moderate, 4 for adventurous) whose topics are, in order, the successive
\* entries of that key's progression for as long as the table has entries.
C20_ProgressionSteps ==
    (/\ found.op = "suggest_exploration_paths"
     /\ found.service = "MockConnectionMapService"
     /\ found.exploration_level \in {"conservative", "moderate", "adventurous"})
    => \A i \in 1..Min(Len(found.user_interests), Len(found.result)) :
          ProgressionsIn(found.user_interests[i].name) # {}
          => LET path == found.result[i]
                 progression == KeyOf(found.user_interests[i].name).progression
                 n == CASE found.exploration_level = "conservative" -> 2
                        [] found.exploration_level = "moderate" -> 3
                        [] found.exploration_level = "adventurous" -> 4
             IN /\ path.starting_interest = found.user_interests[i].name
                /\ Len(path.path_steps) = n
                /\ \A j \in 1..Min(n, Len(progression)) :
                      path.path_steps[j].topic = progression[j]

\* C21: MockConnectionMapService.suggest_exploration_paths returns at most 10
\* paths in descending order of the combined novelty/value metric: whatever
\* the combination, a path that is higher both in novelty and in value never
\* comes after a lower one.
C21_SortedAndCapped ==
    (/\ found.op = "suggest_exploration_paths"
     /\ found.service = "MockConnectionMapService")
    => /\ Len(found.result) <= 10
       /\ \A i, j \in 1..Len(found.result) :
             i < j => ~(/\ found.result[j].novelty_score > found.result[i].novelty_score
                        /\ found.result[j].total_value > found.result[i].total_value)

-----------------------------------------------------------------------------
(* Two callers of one CrossInterestConnectionMap *)

\* what each caller asks about
CallerInterestLists ==
    {<<NamedInterest(T_ai, T_tech), NamedInterest(T_health, T_health)>>,
     <<NamedInterest(T_ai_ml, T_tech), NamedInterest(T_ml_art, T_general),
       NamedInterest(T_art, T_general)>>,
     <<NamedInterest(T_ai_ml, T_tech), NamedInterest(T_art, T_general)>>}

NextInterleaved ==
    \/ \E caller \in Callers, user_interests \in CallerInterestLists,
          content_data \in MapContentLists :
          BeginFindNovelConnections(caller, user_interests, content_data, 10)
    \/ \E caller \in Callers : EndFindNovelConnections(caller)

SpecInterleaved == InitConnection /\ [][NextInterleaved]_vars

\* the results of the call when it runs alone
AloneResults(call) ==
    NovelConnections(BuildConnectionGraph(call.user_interests, call.content_data),
                     call.max_connections)

\* C22: two find_novel_connections calls of different users whose steps
\* interleave on the same service instance each return the same result as
\* when run alone; no call observes graph state written by the other.
C22_IndependentCalls ==
    (found.op = "find_novel_connections" /\ "caller" \in DOMAIN found)
    => found.result \in AloneResults(found)

-----------------------------------------------------------------------------
(* Empty inputs of the connection finder *)

\* C23: find_novel_connections and suggest_exploration_paths never raise for
\* any list of named interests and any content list (every call ends with a
\* list), and with zero interests or with zero content both return an empty
\* list.
C23_EmptyInputsEmptyResult ==
    found.op \in {"find_novel_connections", "suggest_exploration_paths"}
    => /\ DOMAIN found.result = 1..Len(found.result)
       /\ (found.user_interests = <<>> \/ found.content_data = <<>>)
          => found.result = <<>>

-----------------------------------------------------------------------------
(* The seed of the propagation *)

\* the interests of the call that are nodes of the built graph
UserInterestNodes(g, user_interests) ==
    {InterestNode(user_interests[k].id) : k \in 1..Len(user_interests)}
        \cap DOMAIN g.nodes

\* the weight of the interest behind node n (the last one of that id)
NodeWeight(user_interests, n) ==
    LET k == CHOOSE i \in 1..Len(user_interests) :
                /\ InterestNode(user_interests[i].id) = n
                /\ \A j \in 1..Len(user_interests) :
                      InterestNode(user_interests[j].id) = n => j <= i
    IN user_interests[k].weight

\* C24: calculate_graph_based_scores seeds the propagation at exactly the
\* interest nodes of the requesting user in the built graph, with seed mass
\* proportional to interest weight, for every user id and every assignment
\* of interest ids.
C24_SeededAtUserInterests ==
    (hybrid.op = "get_hybrid_recommendations" /\ DOMAIN interest_graph.nodes # {})
    => LET seed == Personalization(hybrid.user_id)
           nodes == UserInterestNodes(interest_graph, hybrid.user_interests)
       IN /\ DOMAIN seed = nodes
          /\ \A n, m \in nodes :
                seed[n] * NodeWeight(hybrid.user_interests, m)
                   = seed[m] * NodeWeight(hybrid.user_interests, n)

-----------------------------------------------------------------------------
(* Propagation on graphs without edges and on connected graphs *)

\* a content item without tags: its node has no edge
ItemBare == ContentDict(4, T_paint, <<>>, <<>>)

\* the content the graph is built from: with ItemBare alone no node has an
\* edge, with Item1 alone every node is reached from the interest "ai"
PropagationContent == {<<ItemBare>>, <<Item1>>, <<Item1, Item2, Item3>>}

NextPropagation ==
    \/ \E user_interests \in EngineInterests, content_tags \in PropagationContent :
          BuildInterestGraph(user_interests, content_tags)
    \/ GetHybridRecommendations(Users, {<<InterestDict(1, T_ai, 100)>>},
                                {<<>>, <<ItemBare>>, <<Item1, Item2, Item3>>},
                                {<<>>}, {0, MaxLimit})

SpecPropagation == InitEngine /\ [][NextPropagation]_vars

\* C25: calculate_graph_based_scores terminates on every graph, including
\* fully disconnected and fully connected ones, after a bounded number of
\* propagation iterations, and returns a score map (possibly empty) without
\* raising: the map is empty or has a score in [0, 1] for every content item
\* of the call, and the propagation ends within MaxIter iterations.
C25_BoundedPropagation ==
    hybrid.op = "get_hybrid_recommendations"
    => LET ids == {hybrid.content_data[k].id : k \in 1..Len(hybrid.content_data)}
       IN /\ DOMAIN hybrid.graph_scores \in {{}, ids}
          /\ \A c \in DOMAIN hybrid.graph_scores :
                hybrid.graph_scores[c] \in 0..10000
          /\ InterestNode(hybrid.user_id) \in DOMAIN interest_graph.nodes
             => PageRank(interest_graph, InterestNode(hybrid.user_id)).iterations
                   \in 1..MaxIter

\* a call on a graph without edges, seeded at a node of it, that scored
\* content which is not in the graph
C25_Witness ==
    /\ hybrid.op = "get_hybrid_recommendations"
    /\ DOMAIN interest_graph.nodes # {}
    /\ DOMAIN interest_graph.edges = {}
    /\ InterestNode(hybrid.user_id) \in DOMAIN interest_graph.nodes
    /\ \E c \in DOMAIN hybrid.graph_scores :
          ContentNode(c) \notin DOMAIN interest_graph.nodes

-----------------------------------------------------------------------------
(* The nodes of the two graphs *)

\* interests of one user: free texts, one of them spelt like a node of content
IdentityInterestLists ==
    {<<>>,
     <<NamedInterest(T_ai, T_tech), NamedInterest(T_health, T_health)>>,
     <<NamedInterest(T_ai, T_tech), NamedInterest(T_content_1, T_general)>>,
     <<NamedInterest(T_ai_ml, T_tech), NamedInterest(T_ml_art, T_general),
       NamedInterest(T_art, T_general)>>}

NextIdentity ==
    \/ \E user_interests \in IdentityInterestLists, content_data \in MapContentLists,
          max_connections \in ConnectionLimits :
          FindNovelConnections(user_interests, content_data, max_connections)
    \/ \E user_interests \in EngineInterests, content_tags \in PropagationContent :
          BuildInterestGraph(user_interests, content_tags)

SpecIdentity == InitEngine /\ [][NextIdentity]_vars

\* the entities a build is given, as (type, id); an interest of the
\* connection map is known by its name
MapEntities(user_interests, content_data) ==
    {<<"interest", user_interests[i].name>> : i \in 1..Len(user_interests)}
       \cup {<<"content", content_data[c].id>> : c \in 1..Len(content_data)}

GraphEntities(user_interests, content_tags) ==
    {<<"interest", user_interests[i].id>> : i \in 1..Len(user_interests)}
       \cup {<<"content", content_tags[c].id>> : c \in 1..Len(content_tags)}
       \cup {<<"tag", content_tags[pl[1]].tags[pl[2]].id>> :
                pl \in TagPlaces(content_tags)}

\* C26: in every graph built by build_interest_graph or build_connection_graph
\* node identity is an injective function of (entity type, entity id): two
\* distinct entities never share a node, and rebuilding from identical inputs
\* after any prior builds yields the identical node and edge set.
C26_NodeIdentity ==
    /\ \A user_interests \in EngineInterests, content_tags \in PropagationContent :
          interest_graph = BuildGraph(user_interests, content_tags)
          => Cardinality(DOMAIN interest_graph.nodes)
                = Cardinality(GraphEntities(user_interests, content_tags))
    /\ (found.op = "find_novel_connections"
        /\ found.service = "CrossInterestConnectionMap")
       => /\ graph = BuildConnectionGraph(found.user_interests, found.content_data)
          /\ Len(graph.nodes)
                = Cardinality(MapEntities(found.user_interests, found.content_data))
          /\ \A i \in 1..Len(found.user_interests) :
                \E k \in 1..Len(graph.nodes) :
                   /\ graph.nodes[k].name = found.user_interests[i].name
                   /\ graph.nodes[k].type = "interest"

-----------------------------------------------------------------------------
(* Bridging content *)

\* the bridging content items of a returned connection, and which item of
\* the content list each names: the real map reports the id as text
BridgeItems(connection) ==
    IF "content_bridge" \in DOMAIN connection THEN connection.content_bridge
    ELSE connection.bridging_content

RefersTo(service, item, listed) ==
    IF service = "CrossInterestConnectionMap" THEN item.id = Str(listed.id)
    ELSE item.id = listed.id

\* C27: every bridging content item of a connection returned by
\* find_novel_connections (CrossInterestConnectionMap and
\* MockConnectionMapService) refers to an item of the content list passed to
\* that call.
C27_BridgesFromContentList ==
    (found.op = "find_novel_connections" /\ "caller" \notin DOMAIN found)
    => \A k \in 1..Len(found.result) :
          \A b \in 1..Len(BridgeItems(found.result[k])) :
             \E c \in 1..Len(found.content_data) :
                RefersTo(found.service, BridgeItems(found.result[k])[b],
                         found.content_data[c])

-----------------------------------------------------------------------------
(* Feedback on a pair with several recommendation records *)

\* C28: when several RecommendationRecords are stored for the same (user,
\* content), submit_feedback updates exactly one of them (the first found)
\* and leaves the others unchanged; it sets that record's clicked flag to
\* true if and only if the type is like or view, so a later dislike, share
\* or bookmark resets clicked to false.
C28_OneRecordClicked ==
    (FeedbackDone
     /\ Cardinality(RecsFor(pre.recommendations, last.user_id, last.content_id)) > 1)
    => /\ Len(recommendations) = Len(pre.recommendations)
       /\ \E k \in RecsFor(pre.recommendations, last.user_id, last.content_id) :
             /\ recommendations[k] =
                   [pre.recommendations[k] EXCEPT
                       !.clicked = last.interaction_type \in {"like", "view"}]
             /\ \A j \in 1..Len(recommendations) :
                   j # k => recommendations[j] = pre.recommendations[j]

\* a dislike, share or bookmark that reset the flag of one of two records
C28_Witness ==
    /\ FeedbackDone
    /\ last.interaction_type \in {"dislike", "share", "bookmark"}
    /\ Cardinality(RecsFor(pre.recommendations, last.user_id, last.content_id)) > 1
    /\ \E k \in RecsFor(pre.recommendations, last.user_id, last.content_id) :
          pre.recommendations[k].clicked /\ ~recommendations[k].clicked

-----------------------------------------------------------------------------
(* add_interest on stores where each user holds each topic once *)

\* stores with one interest per (user, topic); 1.95 is reached from 1.0 by
\* views
HeldOnce ==
    {<<>>,
     <<Interest(1, T_ai, 100), Interest(1, T_AI, 195), Interest(2, T_ai, 200)>>}

InitAddInterest ==
    /\ content = SeedContent
    /\ interests \in HeldOnce
    /\ interactions = <<>>
    /\ recommendations = <<>>
    /\ pending = <<>>
    /\ fk_enforced \in BOOLEAN
    /\ pre = [interests |-> interests, interactions |-> <<>>,
              recommendations |-> <<>>]
    /\ last = NoCall
    /\ calls = 0
    /\ FreshEngine
    /\ FreshMap

NextAddInterest ==
    \E u \in Users, t \in Topics, w \in RequestedWeights : AddInterest(u, t, w)

SpecAddInterest == InitAddInterest /\ [][NextAddInterest]_vars

\* the rows of a table of interests that hold topic t for user u
HeldRows(rows, u, t) ==
    {k \in 1..Len(rows) : rows[k].user_id = u /\ rows[k].topic = t}

\* C29: starting from a state where each user holds each topic at most once,
\* any sequence of add_interest calls keeps at most one interest per (user,
\* topic): adding an already-held topic creates no new interest and raises
\* the existing weight by 0.1 capped at 2.0, ignoring the requested weight.
C29_OneInterestPerTopic ==
    /\ \A u \in Users, t \in Topics : Cardinality(HeldRows(interests, u, t)) <= 1
    /\ (/\ last.op = "add_interest"
        /\ last.error = ""
        /\ HeldRows(pre.interests, last.user_id, last.topic) # {})
       => /\ Len(interests) = Len(pre.interests)
          /\ \A k \in 1..Len(interests) :
                interests[k] =
                   IF k \in HeldRows(pre.interests, last.user_id, last.topic)
                   THEN [pre.interests[k] EXCEPT
                            !.weight = IF @ + 10 > 200 THEN 200 ELSE @ + 10]
                   ELSE pre.interests[k]

\* an already-held topic added again with another weight, the bump cut at 2.0
C29_Witness ==
    /\ last.op = "add_interest"
    /\ last.error = ""
    /\ \E k \in HeldRows(pre.interests, last.user_id, last.topic) :
          /\ pre.interests[k].weight = 195
          /\ interests[k].weight = 200
          /\ last.weight = 5

-----------------------------------------------------------------------------
(* Views and the types that carry no weight change *)

\* C30: in submit_feedback a view raises the weight of matching interests by
\* 0.05 (clamped to [0.1, 2.0]), and a share, bookmark or unrecognised type
\* leaves every interest weight unchanged while still appending the
\* interaction to the log.
C30_ViewAndNeutralTypes ==
    /\ (FeedbackDone /\ last.interaction_type = "view")
       => \A k \in MatchingInterests :
             interests[k].weight = Max(10, Min(200, pre.interests[k].weight + 5))
    /\ (FeedbackDone /\ last.interaction_type \notin {"like", "dislike", "view"})
       => /\ interests = pre.interests
          /\ Len(interactions) > Len(pre.interactions)
          /\ interactions[Len(interactions)] =
                Interaction(last.user_id, last.content_id, last.interaction_type)

=============================================================================
